---- MODULE Spec2Model ----
(***************************************************************************)
(* makemkv-auto: content classification (detector.py) and the disc         *)
(* monitor's output resolution (monitor.py, ripper.py, disc_db.py,         *)
(* web/state.py).                                                          *)
(*                                                                         *)
(* Strings are sequences of one-character strings, so that the regular     *)
(* expressions, substring tests and case conversions of the source are     *)
(* computed on characters.  Sizes are counted in whole GiB (1024**3 bytes  *)
(* is one unit); durations are seconds, as in TitleInfo.                   *)
(***************************************************************************)
EXTENDS Integers, Sequences, FiniteSets, TLC

(***************************************************************************)
(* Characters and strings                                                  *)
(***************************************************************************)
UpperChars == <<"A","B","C","D","E","F","G","H","I","J","K","L","M",
                "N","O","P","Q","R","S","T","U","V","W","X","Y","Z">>

LowerChars == <<"a","b","c","d","e","f","g","h","i","j","k","l","m",
                "n","o","p","q","r","s","t","u","v","w","x","y","z">>

\* str.lower() on one character
LowerChar(c) ==
  IF \E i \in 1..26 : UpperChars[i] = c
  THEN LowerChars[CHOOSE i \in 1..26 : UpperChars[i] = c]
  ELSE c

\* str.upper() on one character (used to build inputs only)
UpperChar(c) ==
  IF \E i \in 1..26 : LowerChars[i] = c
  THEN UpperChars[CHOOSE i \in 1..26 : LowerChars[i] = c]
  ELSE c

\* str.lower()
Lower(s) == [i \in 1..Len(s) |-> LowerChar(s[i])]

Upper(s) == [i \in 1..Len(s) |-> UpperChar(s[i])]

\* regex \d
IsDigit(c) == c \in {"0","1","2","3","4","5","6","7","8","9"}

\* regex \s, and the separators of str.split()
IsSpace(c) == c \in {" ", "\t"}

\* the literal w occurs in s at position i
MatchAt(s, i, w) ==
  /\ i >= 1
  /\ i + Len(w) - 1 <= Len(s)
  /\ \A j \in 1..Len(w) : s[i + j - 1] = w[j]

\* Python's `w in s`
Contains(s, w) == \E i \in 1..(Len(s) - Len(w) + 1) : MatchAt(s, i, w)

\* s[a..b] consists of whitespace only (empty when a > b)
AllSpace(s, a, b) == \A m \in a..b : IsSpace(s[m])

\* s[a..b] consists of digits only and is not empty
AllDigits(s, a, b) == a <= b /\ \A m \in a..b : IsDigit(s[m])

\* s[a..b] matches \s*[-:]?\s*
IsSeparator(s, a, b) ==
  /\ \A m \in a..b : IsSpace(s[m]) \/ s[m] \in {"-", ":"}
  /\ Cardinality({m \in a..b : s[m] \in {"-", ":"}}) <= 1

\* regex  w\s*\d  matched at position i of s: the literal, optional
\* whitespace, then a digit
WordNumberAt(s, i, w) ==
  /\ MatchAt(s, i, w)
  /\ \E j \in (i + Len(w))..Len(s) :
       IsDigit(s[j]) /\ AllSpace(s, i + Len(w), j - 1)

\* regex  w1\s+w2  found anywhere in s
TwoWords(s, w1, w2) ==
  \E i \in 1..Len(s) :
    /\ MatchAt(s, i, w1)
    /\ \E j \in (i + Len(w1) + 1)..Len(s) :
         AllSpace(s, i + Len(w1), j - 1) /\ MatchAt(s, j, w2)

SetMin(S) == CHOOSE x \in S : \A y \in S : x <= y

SetMax(S) == CHOOSE x \in S : \A y \in S : x >= y

\* ' '.join(s.split()): runs of whitespace become one blank, leading and
\* trailing whitespace is dropped
RECURSIVE CollapseFrom(_, _)
CollapseFrom(s, i) ==
  IF i > Len(s) THEN <<>>
  ELSE IF IsSpace(s[i])
       THEN IF i = 1 \/ IsSpace(s[i - 1]) \/ AllSpace(s, i, Len(s))
            THEN CollapseFrom(s, i + 1)
            ELSE <<" ">> \o CollapseFrom(s, i + 1)
       ELSE <<s[i]>> \o CollapseFrom(s, i + 1)

Collapse(s) == CollapseFrom(s, 1)

\* str(n) for 0 <= n <= 99
Digits == <<"0","1","2","3","4","5","6","7","8","9">>

IntToStr(n) ==
  IF n < 10 THEN <<Digits[n + 1]>>
  ELSE <<Digits[(n \div 10) + 1], Digits[(n % 10) + 1]>>

(***************************************************************************)
(* detector.py                                                             *)
(***************************************************************************)
KNOWN_TV_SHOWS ==
  { <<"m","i","s","s"," ","m","a","r","p","l","e">>  \* 'miss marple' (detector.py:29)
  , <<"a","g","a","t","h","a"," ","c","h","r","i","s","t","i","e">>  \* 'agatha christie' (detector.py:30)
  , <<"p","o","i","r","o","t">>  \* 'poirot' (detector.py:31)
  , <<"h","e","r","c","u","l","e"," ","p","o","i","r","o","t">>  \* 'hercule poirot' (detector.py:32)
  , <<"s","h","e","r","l","o","c","k">>  \* 'sherlock' (detector.py:33)
  , <<"s","h","e","r","l","o","c","k"," ","h","o","l","m","e","s">>  \* 'sherlock holmes' (detector.py:34)
  , <<"m","i","d","s","o","m","e","r"," ","m","u","r","d","e","r","s">>  \* 'midsomer murders' (detector.py:35)
  , <<"i","n","s","p","e","c","t","o","r"," ","m","o","r","s","e">>  \* 'inspector morse' (detector.py:36)
  , <<"l","e","w","i","s">>  \* 'lewis' (detector.py:37)
  , <<"e","n","d","e","a","v","o","u","r">>  \* 'endeavour' (detector.py:38)
  , <<"i","n","s","p","e","c","t","o","r"," ","l","e","w","i","s">>  \* 'inspector lewis' (detector.py:39)
  , <<"v","e","r","a">>  \* 'vera' (detector.py:40)
  , <<"s","h","e","t","l","a","n","d">>  \* 'shetland' (detector.py:41)
  , <<"b","r","o","a","d","c","h","u","r","c","h">>  \* 'broadchurch' (detector.py:42)
  , <<"l","i","n","e"," ","o","f"," ","d","u","t","y">>  \* 'line of duty' (detector.py:43)
  , <<"h","a","p","p","y"," ","v","a","l","l","e","y">>  \* 'happy valley' (detector.py:44)
  , <<"f","a","r","g","o">>  \* 'fargo' (detector.py:45)
  , <<"t","r","u","e"," ","d","e","t","e","c","t","i","v","e">>  \* 'true detective' (detector.py:46)
  , <<"t","h","e"," ","k","i","l","l","i","n","g">>  \* 'the killing' (detector.py:47)
  , <<"w","a","l","l","a","n","d","e","r">>  \* 'wallander' (detector.py:48)
  , <<"i","n","s","p","e","c","t","o","r"," ","m","o","n","t","a","l","b","a","n","o">>  \* 'inspector montalbano' (detector.py:49)
  , <<"c","o","m","m","i","s","s","a","r","i","o"," ","m","o","n","t","a","l","b","a","n","o">>  \* 'commissario montalbano' (detector.py:50)
  , <<"d","o","n","n","a"," ","l","e","o","n">>  \* 'donna leon' (detector.py:51)
  , <<"b","r","u","n","o">>  \* 'bruno' (detector.py:52)
  , <<"d","i","c","t","e">>  \* 'dicte' (detector.py:53)
  , <<"t","h","e"," ","b","r","i","d","g","e">>  \* 'the bridge' (detector.py:54)
  , <<"b","r","o","n">>  \* 'bron' (detector.py:55)
  , <<"y","o","u","n","g"," ","w","a","l","l","a","n","d","e","r">>  \* 'young wallander' (detector.py:56)
  , <<"b","l","a","c","k"," ","m","i","r","r","o","r">>  \* 'black mirror' (detector.py:59)
  , <<"i","n","s","i","d","e"," ","n","o","."," ","9">>  \* 'inside no. 9' (detector.py:60)
  , <<"l","o","v","e"," ","d","e","a","t","h"," ","a","n","d"," ","r","o","b","o","t","s">>  \* 'love death and robots' (detector.py:61)
  , <<"e","l","e","c","t","r","i","c"," ","d","r","e","a","m","s">>  \* 'electric dreams' (detector.py:62)
  , <<"t","w","i","l","i","g","h","t"," ","z","o","n","e">>  \* 'twilight zone' (detector.py:63)
  , <<"t","a","l","e","s"," ","f","r","o","m"," ","t","h","e"," ","l","o","o","p">>  \* 'tales from the loop' (detector.py:64)
  , <<" ","c","a","b","i","n","e","t"," ","o","f"," ","c","u","r","i","o","s","i","t","i","e","s">>  \* ' cabinet of curiosities' (detector.py:65)
  , <<"b","a","n","d"," ","o","f"," ","b","r","o","t","h","e","r","s">>  \* 'band of brothers' (detector.py:68)
  , <<"t","h","e"," ","p","a","c","i","f","i","c">>  \* 'the pacific' (detector.py:69)
  , <<"g","e","n","e","r","a","t","i","o","n"," ","k","i","l","l">>  \* 'generation kill' (detector.py:70)
  , <<"c","h","e","r","n","o","b","y","l">>  \* 'chernobyl' (detector.py:71)
  , <<"t","h","e"," ","q","u","e","e","n">>  \* 'the queen' (detector.py:72)
  , <<"c","r","o","w","n">>  \* 'crown' (detector.py:73)
  , <<"m","a","n","h","u","n","t">>  \* 'manhunt' (detector.py:74)
  , <<"w","h","e","n"," ","t","h","e","y"," ","s","e","e"," ","u","s">>  \* 'when they see us' (detector.py:75)
  , <<"s","h","a","r","p"," ","o","b","j","e","c","t","s">>  \* 'sharp objects' (detector.py:76)
  , <<"b","i","g"," ","l","i","t","t","l","e"," ","l","i","e","s">>  \* 'big little lies' (detector.py:77)
  , <<"m","a","r","e"," ","o","f"," ","e","a","s","t","t","o","w","n">>  \* 'mare of easttown' (detector.py:78)
  , <<"n","i","g","h","t"," ","m","a","n","a","g","e","r">>  \* 'night manager' (detector.py:79)
  , <<"l","i","t","t","l","e"," ","d","o","r","r","i","t">>  \* 'little dorrit' (detector.py:80)
  , <<"b","l","e","a","k"," ","h","o","u","s","e">>  \* 'bleak house' (detector.py:81)
  , <<"p","r","i","d","e"," ","a","n","d"," ","p","r","e","j","u","d","i","c","e">>  \* 'pride and prejudice' (detector.py:82)
  , <<"n","o","r","t","h"," ","a","n","d"," ","s","o","u","t","h">>  \* 'north and south' (detector.py:83)
  , <<"j","a","n","e"," ","e","y","r","e">>  \* 'jane eyre' (detector.py:84)
  , <<"w","u","t","h","e","r","i","n","g"," ","h","e","i","g","h","t","s">>  \* 'wuthering heights' (detector.py:85)
  , <<"t","e","s","s"," ","o","f"," ","t","h","e">>  \* 'tess of the' (detector.py:86)
  , <<"v","a","n","i","t","y"," ","f","a","i","r">>  \* 'vanity fair' (detector.py:87)
  , <<"d","a","v","i","d"," ","c","o","p","p","e","r","f","i","e","l","d">>  \* 'david copperfield' (detector.py:88)
  , <<"o","l","i","v","e","r"," ","t","w","i","s","t">>  \* 'oliver twist' (detector.py:89)
  , <<"g","r","e","a","t"," ","e","x","p","e","c","t","a","t","i","o","n","s">>  \* 'great expectations' (detector.py:90)
  , <<"d","o","w","n","t","o","n"," ","a","b","b","e","y">>  \* 'downton abbey' (detector.py:93)
  , <<"u","p","s","t","a","i","r","s"," ","d","o","w","n","s","t","a","i","r","s">>  \* 'upstairs downstairs' (detector.py:94)
  , <<"t","h","e"," ","c","r","o","w","n">>  \* 'the crown' (detector.py:95)
  , <<"v","i","c","t","o","r","i","a">>  \* 'victoria' (detector.py:96)
  , <<"t","h","e"," ","d","u","r","r","e","l","l","s">>  \* 'the durrells' (detector.py:97)
  , <<"g","r","a","n","t","c","h","e","s","t","e","r">>  \* 'grantchester' (detector.py:98)
  , <<"f","a","t","h","e","r"," ","b","r","o","w","n">>  \* 'father brown' (detector.py:99)
  , <<"s","i","s","t","e","r"," ","b","o","n","i","f","a","c","e">>  \* 'sister boniface' (detector.py:100)
  , <<"m","u","r","d","o","c","h"," ","m","y","s","t","e","r","i","e","s">>  \* 'murdoch mysteries' (detector.py:101)
  , <<"r","o","s","e","h","a","v","e","n">>  \* 'rosehaven' (detector.py:102)
  , <<"d","e","a","t","h"," ","i","n"," ","p","a","r","a","d","i","s","e">>  \* 'death in paradise' (detector.py:103)
  , <<"m","a","r","c","e","l","l","a">>  \* 'marcella' (detector.py:104)
  , <<"t","h","e"," ","f","a","l","l">>  \* 'the fall' (detector.py:105)
  , <<"p","r","i","m","e"," ","s","u","s","p","e","c","t">>  \* 'prime suspect' (detector.py:106)
  , <<"c","r","a","c","k","e","r">>  \* 'cracker' (detector.py:107)
  , <<"w","i","r","e"," ","i","n"," ","t","h","e"," ","b","l","o","o","d">>  \* 'wire in the blood' (detector.py:108)
  , <<"s","i","l","e","n","t"," ","w","i","t","n","e","s","s">>  \* 'silent witness' (detector.py:109)
  , <<"n","e","w"," ","t","r","i","c","k","s">>  \* 'new tricks' (detector.py:110)
  , <<"a","s"," ","t","i","m","e"," ","g","o","e","s"," ","b","y">>  \* 'as time goes by' (detector.py:111)
  , <<"l","a","s","t"," ","t","a","n","g","o"," ","i","n"," ","h","a","l","i","f","a","x">>  \* 'last tango in halifax' (detector.py:112)
  , <<"f","o","r","b","r","y","d","e","l","s","e","n">>  \* 'forbrydelsen' (detector.py:117)
  , <<"b","o","r","g","i","a">>  \* 'borgia' (detector.py:118)
  , <<"t","h","e"," ","b","o","r","g","i","a","s">>  \* 'the borgias' (detector.py:119)
  , <<"m","e","d","i","c","i">>  \* 'medici' (detector.py:120)
  , <<"v","e","r","s","a","i","l","l","e","s">>  \* 'versailles' (detector.py:121)
  , <<"v","i","k","i","n","g","s">>  \* 'vikings' (detector.py:122)
  , <<"t","h","e"," ","l","a","s","t"," ","k","i","n","g","d","o","m">>  \* 'the last kingdom' (detector.py:123)
  , <<"t","u","d","o","r","s">>  \* 'tudors' (detector.py:124)
  , <<"t","h","e"," ","t","u","d","o","r","s">>  \* 'the tudors' (detector.py:125)
  , <<"w","h","i","t","e"," ","q","u","e","e","n">>  \* 'white queen' (detector.py:126)
  , <<"w","h","i","t","e"," ","p","r","i","n","c","e","s","s">>  \* 'white princess' (detector.py:127)
  , <<"s","p","a","n","i","s","h"," ","p","r","i","n","c","e","s","s">>  \* 'spanish princess' (detector.py:128)
  , <<"p","i","l","l","a","r","s"," ","o","f"," ","t","h","e"," ","e","a","r","t","h">>  \* 'pillars of the earth' (detector.py:129)
  , <<"w","o","r","l","d"," ","w","i","t","h","o","u","t"," ","e","n","d">>  \* 'world without end' (detector.py:130)
  , <<"s","p","a","r","t","a","c","u","s">>  \* 'spartacus' (detector.py:131)
  , <<"r","o","m","e">>  \* 'rome' (detector.py:132)
  , <<"g","a","m","e"," ","o","f"," ","t","h","r","o","n","e","s">>  \* 'game of thrones' (detector.py:135)
  , <<"h","o","u","s","e"," ","o","f"," ","t","h","e"," ","d","r","a","g","o","n">>  \* 'house of the dragon' (detector.py:136)
  , <<"w","e","s","t","w","o","r","l","d">>  \* 'westworld' (detector.py:137)
  , <<"w","a","t","c","h","m","e","n">>  \* 'watchmen' (detector.py:138)
  , <<" ","H","i","s"," ","D","a","r","k"," ","M","a","t","e","r","i","a","l","s">>  \* ' His Dark Materials' (detector.py:139)
  , <<"t","h","e"," ","g","o","l","d","e","n"," ","c","o","m","p","a","s","s">>  \* 'the golden compass' (detector.py:140)
  , <<"d","a"," ","v","i","n","c","i">>  \* 'da vinci' (detector.py:141)
  , <<"t","h","e"," ","w","h","i","t","e"," ","q","u","e","e","n">>  \* 'the white queen' (detector.py:143)
  , <<"t","h","e"," ","w","h","i","t","e"," ","p","r","i","n","c","e","s","s">>  \* 'the white princess' (detector.py:144)
  , <<"o","u","t","l","a","n","d","e","r">>  \* 'outlander' (detector.py:147)
  , <<"m","a","d"," ","m","e","n">>  \* 'mad men' (detector.py:152)
  , <<"t","h","e"," ","a","m","e","r","i","c","a","n","s">>  \* 'the americans' (detector.py:153)
  , <<"h","a","l","t"," ","a","n","d"," ","c","a","t","c","h"," ","f","i","r","e">>  \* 'halt and catch fire' (detector.py:154)
  , <<"b","e","t","t","e","r"," ","c","a","l","l"," ","s","a","u","l">>  \* 'better call saul' (detector.py:155)
  , <<"b","r","e","a","k","i","n","g"," ","b","a","d">>  \* 'breaking bad' (detector.py:156)
  , <<"t","h","e"," ","s","o","p","r","a","n","o","s">>  \* 'the sopranos' (detector.py:157)
  , <<"t","h","e"," ","w","i","r","e">>  \* 'the wire' (detector.py:158)
  , <<"b","o","a","r","d","w","a","l","k"," ","e","m","p","i","r","e">>  \* 'boardwalk empire' (detector.py:159)
  , <<"h","o","m","e","l","a","n","d">>  \* 'homeland' (detector.py:160)
  , <<"h","o","u","s","e"," ","o","f"," ","c","a","r","d","s">>  \* 'house of cards' (detector.py:161)
  , <<"t","h","e"," ","m","o","r","n","i","n","g"," ","s","h","o","w">>  \* 'the morning show' (detector.py:162)
  , <<"s","u","c","c","e","s","s","i","o","n">>  \* 'succession' (detector.py:163)
  }

\* ContentType values (detector.py:18-22) and DetectionResult.confidence
MOVIE == "movie"

TV_SHOW == "tvshow"

UNKNOWN == "unknown"

\* suggested_name = None
None == <<"<None>">>

\* config.detection.min_movie_duration (minutes)
DEFAULT_MIN_MOVIE_DURATION == 75

\* One reason text: the fixed wording (kind), the number and the text that
\* the f-string interpolates into it.
Reason(kind, num, text) == [kind |-> kind, num |-> num, text |-> text]

\* A verdict of one signal (DetectionResult without suggested_name)
Verdict(ct, conf, r) ==
  [content_type |-> ct, confidence |-> conf, reason |-> r]

\* A final DetectionResult: reason is the head wording plus the reasons
\* joined into it
Result(ct, conf, head, parts, name) ==
  [content_type |-> ct, confidence |-> conf,
   reason |-> [head |-> head, parts |-> parts], suggested_name |-> name]

RECURSIVE SeqSum(_)
SeqSum(s) == IF s = <<>> THEN 0 ELSE Head(s) + SeqSum(Tail(s))

SeqMax(s) == SetMax({s[i] : i \in 1..Len(s)})

\* [t.duration // 60 for t in titles]
Minutes(titles) == [i \in 1..Len(titles) |-> titles[i].duration \div 60]

\* statistics.variance(xs) < bound, for len(xs) >= 2: the sample variance
\* sum((x - mean)**2) / (n - 1), compared without division
VarianceBelow(xs, bound) ==
  LET n  == Len(xs)
      s  == SeqSum(xs)
      sq == SeqSum([i \in 1..n |-> xs[i] * xs[i]])
  IN  n * sq - s * s < bound * n * (n - 1)

\* _clean_name: each re.sub removes from the leftmost match to the end
CutFrom(s, starts) ==
  IF starts = {} THEN s ELSE SubSeq(s, 1, SetMin(starts) - 1)

\* start positions of  \s*[-:]?\s*(?:w1|w2|..)\s*\d+.*$  (IGNORECASE)
TokenStarts(s, words) ==
  LET low  == Lower(s)
      hits == {i \in 1..Len(s) : \E w \in words : WordNumberAt(low, i, w)}
  IN  {p \in 1..Len(s) : \E i \in hits : p <= i /\ IsSeparator(s, p, i - 1)}

\* start positions of  \s+s\d+.*$  (IGNORECASE)
SeasonCodeStarts(s) ==
  {p \in 1..Len(s) :
     \E i \in (p + 1)..(Len(s) - 1) :
        /\ AllSpace(s, p, i - 1)
        /\ LowerChar(s[i]) = "s"
        /\ IsDigit(s[i + 1])}

\* start positions of  \s*\(\d{4}\)\s*$
YearStarts(s) ==
  {p \in 1..Len(s) :
     \E i \in p..(Len(s) - 5) :
        /\ AllSpace(s, p, i - 1)
        /\ s[i] = "("
        /\ AllDigits(s, i + 1, i + 4)
        /\ s[i + 5] = ")"
        /\ AllSpace(s, i + 6, Len(s))}

_clean_name(name) ==
  LET c1 == CutFrom(name, TokenStarts(name, {<<"s","e","a","s","o","n">>,
                                  <<"t","e","m","p","o","r","a","d","a">>}))
      c2 == CutFrom(c1, SeasonCodeStarts(c1))
      c3 == CutFrom(c2, TokenStarts(c2, {<<"d","i","s","c">>}))
      c4 == CutFrom(c3, TokenStarts(c3, {<<"p","a","r","t">>,
                                         <<"v","o","l","u","m","e">>,
                                         <<"v","o","l">>}))
      c5 == CutFrom(c4, YearStarts(c4))
  IN  Collapse(c5)

\* forced_types is the dict in insertion order: a sequence of <<key, value>>
ForcedClass(forced_type) ==
  IF forced_type = "tvshow" THEN TV_SHOW ELSE MOVIE

OverrideResult(forced_type, disc_name) ==
  Result(ForcedClass(forced_type), "high", "Manual override in config",
         <<Reason("forced as", 0, forced_type)>>, _clean_name(disc_name))

\* the override looked up by exact key only
_check_manual_override_exact_only(forced_types, disc_name) ==
  LET exact == {i \in 1..Len(forced_types) : forced_types[i][1] = disc_name}
  IN  IF exact # {}
      THEN {OverrideResult(forced_types[SetMin(exact)][2], disc_name)}
      ELSE {}

\* _check_manual_override: the set of results it can return, {} for None
_check_manual_override(forced_types, disc_name) ==
  LET exact == {i \in 1..Len(forced_types) : forced_types[i][1] = disc_name}
      disc_lower == Lower(disc_name)
      ci    == {i \in 1..Len(forced_types) :
                   Lower(forced_types[i][1]) = disc_lower}
  IN  IF forced_types = <<>> THEN {}
      ELSE IF exact # {}
           THEN {OverrideResult(forced_types[SetMin(exact)][2], disc_name)}
      ELSE IF ci # {}
           THEN {OverrideResult(forced_types[SetMin(ci)][2], disc_name)}
      ELSE {}

\* _check_known_tv_shows: KNOWN_TV_SHOWS is a set, its iteration order is
\* not fixed, so each matching entry can be the one that is reported
_check_known_tv_shows(disc_name) ==
  LET disc_lower == Lower(disc_name)
  IN  {Result(TV_SHOW, "high", "Detected as TV show",
              <<Reason("is in known TV shows database", 0, known_show)>>,
              _clean_name(disc_name)) :
         known_show \in {k \in KNOWN_TV_SHOWS : Contains(disc_lower, k)}}

\* the alternation without its last word
MultiDiscWords_without_vol ==
  {<<"d","i","s","c">>, <<"p","a","r","t">>, <<"v","o","l","u","m","e">>}

\* the words of multi_disc_pattern
MultiDiscWords ==
  {<<"d","i","s","c">>, <<"p","a","r","t">>,
   <<"v","o","l","u","m","e">>, <<"v","o","l">>}

\* start positions of (?:\s*[-:]?\s*(?:disc|part|volume|vol)\s*\d+)$
MultiDiscStarts(s) ==
  LET low  == Lower(s)
      hits == {i \in 1..Len(s) : \E w \in MultiDiscWords :
                 /\ MatchAt(low, i, w)
                 /\ \E j \in (i + Len(w))..Len(s) :
                      AllSpace(s, i + Len(w), j - 1) /\ AllDigits(s, j, Len(s))}
  IN  {p \in 1..Len(s) : \E i \in hits : p <= i /\ IsSeparator(s, p, i - 1)}

_check_multidisc_pattern(disc_name) ==
  LET starts == MultiDiscStarts(disc_name)
  IN  IF starts = {} THEN {}
      ELSE {Result(TV_SHOW, "high", "Multi-disc pattern detected",
              <<Reason("group", 0,
                  SubSeq(disc_name, SetMin(starts), Len(disc_name)))>>,
              _clean_name(disc_name))}

\* _filter_main_content
MinMainDuration == 10 * 60

_filter_main_content(titles) ==
  SelectSeq(titles, LAMBDA t : t.duration >= MinMainDuration)

NoText == <<>>

\* _detect_by_name: the TV list is scanned first, then the movie list
TvIndicator(n) ==
  \/ \E i \in 1..Len(n) :
       \/ WordNumberAt(n, i, <<"s","e","a","s","o","n">>)
       \/ MatchAt(n, i, <<"s">>) /\ i < Len(n) /\ IsDigit(n[i + 1])
       \/ WordNumberAt(n, i, <<"t","e","m","p","o","r","a","d","a">>)
       \/ WordNumberAt(n, i, <<"d","i","s","c">>)
       \/ WordNumberAt(n, i, <<"v","o","l","u","m","e">>)
       \/ WordNumberAt(n, i, <<"p","a","r","t">>)
  \/ Contains(n, <<"e","p","i","s","o","d","e">>)
  \/ Contains(n, <<"c","h","a","p","t","e","r">>)
  \/ TwoWords(n, <<"c","o","m","p","l","e","t","e">>, <<"s","e","r","i","e","s">>)
  \/ TwoWords(n, <<"t","h","e">>, <<"c","o","m","p","l","e","t","e">>)
  \/ TwoWords(n, <<"b","o","x">>, <<"s","e","t">>)
  \/ TwoWords(n, <<"t","v">>, <<"s","e","r","i","e","s">>)

MovieIndicator(n) ==
  \/ \E i \in 1..(Len(n) - 5) :
       n[i] = "(" /\ AllDigits(n, i + 1, i + 4) /\ n[i + 5] = ")"
  \/ Len(n) >= 4 /\ AllDigits(n, Len(n) - 3, Len(n))
  \/ Contains(n, <<"c","r","i","t","e","r","i","o","n">>)
  \/ TwoWords(n, <<"d","i","r","e","c","t","o","r","'","s">>, <<"c","u","t">>)
  \/ TwoWords(n, <<"e","x","t","e","n","d","e","d">>, <<"c","u","t">>)

_detect_by_name(disc_name) ==
  LET name_lower == Lower(disc_name)
  IN  IF TvIndicator(name_lower)
      THEN Verdict(TV_SHOW, "high", Reason("Disc name matches TV pattern", 0, NoText))
      ELSE IF MovieIndicator(name_lower)
      THEN Verdict(MOVIE, "high", Reason("Disc name matches movie pattern", 0, NoText))
      ELSE Verdict(UNKNOWN, "low", Reason("No clear name indicators", 0, NoText))

\* the bands with a sitcom band that ends at 24 minutes
DurationBands_short_sitcom ==
  << [name |-> <<"s","i","t","c","o","m">>, min_d |-> 18, max_d |-> 24],
     [name |-> <<"d","r","a","m","a">>, min_d |-> 38, max_d |-> 52],
     [name |-> <<"p","r","e","m","i","u","m">>, min_d |-> 50, max_d |-> 65],
     [name |-> <<"m","o","v","i","e","-","l","e","n","g","t","h">>,
      min_d |-> 60, max_d |-> 130] >>

\* the bands of _detect_by_duration_pattern, in dict order
DurationBands ==
  << [name |-> <<"s","i","t","c","o","m">>, min_d |-> 18, max_d |-> 26],
     [name |-> <<"d","r","a","m","a">>, min_d |-> 38, max_d |-> 52],
     [name |-> <<"p","r","e","m","i","u","m">>, min_d |-> 50, max_d |-> 65],
     [name |-> <<"m","o","v","i","e","-","l","e","n","g","t","h">>,
      min_d |-> 60, max_d |-> 130] >>

\* what a signal leaves behind when a division raises ZeroDivisionError
ZeroDivisionError ==
  Verdict("raised", "none", Reason("division by zero", 0, NoText))

\* a guard that never finds a zero total
ZeroTotal_never(total) == FALSE

\* `if total_duration == 0` and `if total_size == 0`
ZeroTotal(total) == total = 0

_detect_by_duration_pattern(titles, min_movie_duration) ==
  LET durations == Minutes(titles)
      n         == Len(titles)
      fits      == {b \in 1..Len(DurationBands) :
                      \A i \in 1..n :
                        /\ DurationBands[b].min_d <= durations[i]
                        /\ durations[i] <= DurationBands[b].max_d}
      max_duration   == SeqMax(durations)
      total_duration == SeqSum(durations)
  IN  IF n < 2
      THEN IF n > 0 /\ titles[1].duration >= min_movie_duration * 60
           THEN Verdict(MOVIE, "medium",
                  Reason("Single title with movie-length duration",
                         titles[1].duration \div 60, NoText))
           ELSE Verdict(UNKNOWN, "low", Reason("Single short title", 0, NoText))
      ELSE IF VarianceBelow(durations, 100)
      THEN IF fits # {}
           THEN Verdict(TV_SHOW, "high",
                  Reason("All titles have similar durations", 0,
                         DurationBands[SetMin(fits)].name))
           \* mean_duration >= min_movie_duration; int(mean) in the reason
           ELSE IF total_duration >= min_movie_duration * n
           THEN Verdict(MOVIE, "medium",
                  Reason("Similar durations around", total_duration \div n, NoText))
           ELSE Verdict(UNKNOWN, "low",
                  Reason("Duration analysis inconclusive", 0, NoText))
      ELSE IF ZeroTotal(total_duration)
      THEN Verdict(UNKNOWN, "low",
             Reason("Cannot analyze: zero total duration", 0, NoText))
      \* max_duration / total_duration > 0.7
      ELSE IF total_duration = 0 THEN ZeroDivisionError
      ELSE IF 10 * max_duration > 7 * total_duration
      THEN Verdict(MOVIE, "high", Reason("One dominant title", max_duration, NoText))
      ELSE Verdict(TV_SHOW, "medium",
             Reason("Multiple titles with varying durations", 0, NoText))

\* sizes in GiB: size_bytes / (1024**3)
_detect_by_size_distribution(titles) ==
  LET n     == Len(titles)
      sizes == [i \in 1..n |-> titles[i].size_bytes]
      total_size == SeqSum(sizes)
      max_size   == SeqMax(sizes)
      sq    == SeqSum([i \in 1..n |-> sizes[i] * sizes[i]])
  IN  IF n < 2
      THEN IF n > 0 /\ titles[1].size_bytes > 10
           THEN Verdict(MOVIE, "high", Reason("Single large title (>10GB)", 0, NoText))
           ELSE Verdict(UNKNOWN, "low", Reason("Insufficient size data", 0, NoText))
      ELSE IF ZeroTotal(total_size)
      THEN Verdict(UNKNOWN, "low",
             Reason("Cannot analyze: zero total size", 0, NoText))
      \* max_size / total_size > 0.8
      ELSE IF total_size = 0 THEN ZeroDivisionError
      ELSE IF 10 * max_size > 8 * total_size
      THEN Verdict(MOVIE, "high", Reason("One dominant file", max_size, NoText))
      \* variance / mean_size ** 2 < 0.3, variance the sample variance
      ELSE IF 10 * n * (n * sq - total_size * total_size)
                 < 3 * (n - 1) * total_size * total_size
      THEN Verdict(TV_SHOW, "high",
             Reason("Files of similar size", total_size \div n, NoText))
      ELSE Verdict(UNKNOWN, "low", Reason("Size distribution inconclusive", 0, NoText))

\* the episode range without its end points
InEpisodeRange_open(d) == 40 < d /\ d < 130

\* 40 <= d <= 130
InEpisodeRange(d) == 40 <= d /\ d <= 130

_detect_by_title_count(titles) ==
  LET n         == Len(titles)
      durations == Minutes(titles)
      tv_duration_count ==
        Cardinality({i \in 1..n : InEpisodeRange(durations[i])})
  IN  IF n < 2
      THEN Verdict(UNKNOWN, "low",
             Reason("Insufficient titles for count analysis", 0, NoText))
      \* tv_duration_count >= len(titles) * 0.8
      ELSE IF 2 <= n /\ n <= 12 /\ 10 * tv_duration_count >= 8 * n
      THEN Verdict(TV_SHOW, "high",
             Reason("titles with TV episode durations", SeqSum(durations) \div n,
                    IntToStr(n)))
      ELSE IF n <= 3 /\ SeqMax(durations) >= 80
      THEN Verdict(MOVIE, "medium",
             Reason("titles, longest is", SeqMax(durations), IntToStr(n)))
      ELSE Verdict(UNKNOWN, "low",
             Reason("Title count analysis inconclusive", 0, NoText))

\* the greedy pass of _detect_by_clustering over the sorted durations:
\* clusters closed so far, and the current cluster
RECURSIVE ClusterPass(_, _, _, _)
ClusterPass(sorted, i, clusters, current) ==
  IF i > Len(sorted) THEN Append(clusters, current)
  ELSE LET d == sorted[i]
           \* abs(d - statistics.mean(current_cluster)) <= 5
           near == LET diff == d * Len(current) - SeqSum(current)
                   IN  (IF diff < 0 THEN -diff ELSE diff) <= 5 * Len(current)
       IN  IF near
           THEN ClusterPass(sorted, i + 1, clusters, Append(current, d))
           ELSE ClusterPass(sorted, i + 1, Append(clusters, current), <<d>>)

_detect_by_clustering(titles) ==
  LET n        == Len(titles)
      sorted_durations == SortSeq(Minutes(titles), LAMBDA a, b : a < b)
      clusters == ClusterPass(sorted_durations, 2, <<>>, <<sorted_durations[1]>>)
      maxlen   == SetMax({Len(clusters[c]) : c \in 1..Len(clusters)})
      \* max(clusters, key=len): the first of the longest
      largest_cluster ==
        clusters[SetMin({c \in 1..Len(clusters) : Len(clusters[c]) = maxlen})]
  IN  IF n < 3
      THEN Verdict(UNKNOWN, "low",
             Reason("Need at least 3 titles for clustering", 0, NoText))
      \* len(largest_cluster) >= len(titles) * 0.7
      ELSE IF 10 * Len(largest_cluster) >= 7 * n /\ Len(largest_cluster) >= 2
      THEN Verdict(TV_SHOW, "high",
             Reason("titles cluster around",
                    SeqSum(largest_cluster) \div Len(largest_cluster),
                    IntToStr(Len(largest_cluster))))
      ELSE Verdict(UNKNOWN, "low", Reason("Clustering inconclusive", 0, NoText))

\* every verdict counted with the weight of a medium one
Weight_unweighted(confidence) == 2

\* vote weights in half points: high 2.0, medium 1.0, low 0.5
Weight(confidence) ==
  IF confidence = "high" THEN 4 ELSE IF confidence = "medium" THEN 2 ELSE 1

Votes(results, ct) ==
  SeqSum([i \in 1..Len(results) |->
            IF results[i].content_type = ct
            THEN Weight(results[i].confidence) ELSE 0])

\* the tie-break with a longest title that must exceed 90 minutes
TieBreak_above_90(disc_name, titles) ==
  LET longest == SeqMax([i \in 1..Len(titles) |-> titles[i].duration])
  IN  IF titles # <<>> /\ longest > 90 * 60
      THEN Result(MOVIE, "medium", "Ambiguous, but longest is",
                  <<Reason("min", longest \div 60, NoText)>>,
                  _clean_name(disc_name))
      ELSE Result(UNKNOWN, "low", "Could not determine content type", <<>>,
                  _clean_name(disc_name))

\* the else branch of _combine_results: equal totals
TieBreak(disc_name, titles) ==
  LET longest == SeqMax([i \in 1..Len(titles) |-> titles[i].duration])
  IN  IF titles # <<>> /\ longest >= 90 * 60
      THEN Result(MOVIE, "medium", "Ambiguous, but longest is",
                  <<Reason("min", longest \div 60, NoText)>>,
                  _clean_name(disc_name))
      ELSE Result(UNKNOWN, "low", "Could not determine content type", <<>>,
                  _clean_name(disc_name))

\* high only above 3.0
VoteConfidence_above_3(votes) == IF votes > 6 THEN "high" ELSE "medium"

\* "high" if votes >= 3 else "medium", votes in half points
VoteConfidence(votes) == IF votes >= 6 THEN "high" ELSE "medium"

_combine_results(results, disc_name, titles) ==
  LET tv_votes    == Votes(results, TV_SHOW)
      movie_votes == Votes(results, MOVIE)
      strong  == SelectSeq(results, LAMBDA r : r.confidence \in {"high", "medium"})
      reasons == [i \in 1..Len(strong) |-> strong[i].reason]
      first2  == SubSeq(reasons, 1, IF Len(reasons) < 2 THEN Len(reasons) ELSE 2)
  IN  IF tv_votes > movie_votes
      THEN Result(TV_SHOW, VoteConfidence(tv_votes),
                  "TV Show", first2, _clean_name(disc_name))
      ELSE IF movie_votes > tv_votes
      THEN Result(MOVIE, VoteConfidence(movie_votes),
                  "Movie", first2, _clean_name(disc_name))
      ELSE TieBreak(disc_name, titles)

\* the five voting signals, in the order detect passes them on
Signals(main_titles, disc_name, min_movie_duration) ==
  << _detect_by_name(disc_name),
     _detect_by_duration_pattern(main_titles, min_movie_duration),
     _detect_by_size_distribution(main_titles),
     _detect_by_title_count(main_titles),
     _detect_by_clustering(main_titles) >>

\* the verdicts detect hands to _combine_results, <<>> when it returns
\* before the vote
VotedOn(titles, disc_name, forced_types, min_movie_duration) ==
  LET main_titles == _filter_main_content(titles)
  IN  IF \/ _check_manual_override(forced_types, disc_name) # {}
         \/ _check_known_tv_shows(disc_name) # {}
         \/ main_titles = <<>>
         \/ _check_multidisc_pattern(disc_name) # {}
      THEN <<>>
      ELSE Signals(main_titles, disc_name, min_movie_duration)

\* detect left by the exception of a signal
Raised == Result("raised", "none", "division by zero", <<>>, None)

\* detect with the multi-disc pattern tried before the titles are filtered
detect_pattern_before_filter(titles, disc_name, forced_types, min_movie_duration) ==
  LET override_result == _check_manual_override(forced_types, disc_name)
      known_tv_result == _check_known_tv_shows(disc_name)
      main_titles     == _filter_main_content(titles)
      multidisc_result == _check_multidisc_pattern(disc_name)
  IN  IF override_result # {} THEN override_result
      ELSE IF known_tv_result # {} THEN known_tv_result
      ELSE IF multidisc_result # {} THEN multidisc_result
      ELSE IF main_titles = <<>>
      THEN {Result(UNKNOWN, "low", "No main content titles found", <<>>, None)}
      ELSE {_combine_results(Signals(main_titles, disc_name, min_movie_duration),
                             disc_name, main_titles)}

\* SmartContentDetector.detect: the set of results it can return (more than
\* one only through the iteration order of KNOWN_TV_SHOWS)
detect(titles, disc_name, forced_types, min_movie_duration) ==
  LET override_result == _check_manual_override(forced_types, disc_name)
      known_tv_result == _check_known_tv_shows(disc_name)
      main_titles     == _filter_main_content(titles)
      multidisc_result == _check_multidisc_pattern(disc_name)
  IN  IF override_result # {} THEN override_result
      ELSE IF known_tv_result # {} THEN known_tv_result
      ELSE IF main_titles = <<>>
      THEN {Result(UNKNOWN, "low", "No main content titles found", <<>>, None)}
      ELSE IF multidisc_result # {} THEN multidisc_result
      ELSE LET rs == Signals(main_titles, disc_name, min_movie_duration)
           IN  IF \E i \in 1..Len(rs) : rs[i] = ZeroDivisionError
               THEN {Raised}
               ELSE {_combine_results(rs, disc_name, main_titles)}

(***************************************************************************)
(* ripper.py, disc_db.py, web/state.py                                     *)
(***************************************************************************)
\* DiscAnalyzer._sanitize_name: re.sub(r'[\\/:*?"<>|]', '-', name), then
\* whitespace is collapsed
InvalidChars == {"\\", "/", ":", "*", "?", "\"", "<", ">", "|"}

_sanitize_name(name) ==
  Collapse([i \in 1..Len(name) |->
              IF name[i] \in InvalidChars THEN "-" ELSE name[i]])

\* Ripper.rip_disc after output_path.mkdir: "RipError" or "ok".  found is
\* whether makemkvcon could be started, evaluation whether its stderr holds
\* "evaluation" or "unregistered", returncode its exit status.
rip_disc(found, evaluation, returncode) ==
  IF ~found THEN "RipError"
  ELSE IF evaluation THEN "ok"
  ELSE IF returncode # 0 THEN "RipError"
  ELSE "ok"

\* a disc identity that `if disc_info.disc_id` treats as present
HasId(disc_id) == disc_id # None /\ disc_id # <<>>

\* DiscDatabase.has_disc
has_disc(db, disc_id) == disc_id \in DOMAIN db

\* get_disc reading a key that add_disc never writes
get_disc_missing_key(db, disc_id) == <<"<None>", <<>>>>

\* DiscDatabase.get_disc(...).get("output_path")
get_disc(db, disc_id) == db[disc_id].output_path

\* add_disc that leaves an entry that is there as it is
add_disc_keep_entry(db, disc_id, disc_name, output_path) ==
  IF ~HasId(disc_id) \/ disc_id \in DOMAIN db THEN db
  ELSE [i \in DOMAIN db \cup {disc_id} |->
          IF i = disc_id
          THEN [name |-> disc_name, output_path |-> output_path]
          ELSE db[i]]

\* DiscDatabase.add_disc
add_disc(db, disc_id, disc_name, output_path) ==
  IF ~HasId(disc_id) THEN db
  ELSE [i \in DOMAIN db \cup {disc_id} |->
          IF i = disc_id
          THEN [name |-> disc_name, output_path |-> output_path]
          ELSE db[i]]

(***************************************************************************)
(* monitor.py                                                              *)
(***************************************************************************)
\* A directory is <<library root, folder name>>; the output tree maps the
\* directories that exist to their content: the number of .mkv files and
\* whether other entries are present.
NoPath == <<"<None>", <<>>>>

\* a test that looks at .mkv files only
Occupied_mkv_only(tree, path) ==
  path \in DOMAIN tree /\ tree[path].mkv > 0

\* base_output_path.exists() and any(base_output_path.iterdir())
Occupied(tree, path) ==
  path \in DOMAIN tree /\ (tree[path].mkv > 0 \/ tree[path].other)

\* a safety limit that lets the loops reach one number more
SafetyLimitPlusOne == 20 + 1

\* the safety limit of both numbering loops
MaxDiscNumber == 20

\* the numbered name of the movie branch used for series
TvName_parenthesized(base_name, disc_number) ==
  IF disc_number = 1 THEN base_name
  ELSE base_name \o <<" ","(">> \o IntToStr(disc_number) \o <<")">>

\* f"{base_name} Disc {disc_number}"
TvName(base_name, disc_number) ==
  IF disc_number = 1 THEN base_name
  ELSE base_name \o <<" ","D","i","s","c"," ">> \o IntToStr(disc_number)

\* f"{base_name} ({disc_number})"
MovieName(base_name, disc_number) ==
  base_name \o <<" ","(">> \o IntToStr(disc_number) \o <<")">>

\* The `while True` loop of the TV branch, entered with disc_number: the
\* path it leaves in output_path and the numbers it probed.
RECURSIVE TvProbe(_, _, _, _)
TvProbe(tree, base, disc_number, probed) ==
  LET output_path == <<base[1], TvName(base[2], disc_number)>>
  IN  IF ~Occupied(tree, output_path)
      THEN [path |-> output_path, probed |-> probed \cup {disc_number},
            overflow |-> FALSE]
      ELSE IF disc_number + 1 > MaxDiscNumber
      THEN [path |-> base, probed |-> probed \cup {disc_number},
            overflow |-> TRUE]
      ELSE TvProbe(tree, base, disc_number + 1, probed \cup {disc_number})

\* The `while True` loop of the movie branch
RECURSIVE MovieProbe(_, _, _, _)
MovieProbe(tree, base, disc_number, probed) ==
  LET output_path == <<base[1], MovieName(base[2], disc_number)>>
  IN  IF ~Occupied(tree, output_path)
      THEN [path |-> output_path, probed |-> probed \cup {disc_number},
            overflow |-> FALSE]
      ELSE IF disc_number + 1 > MaxDiscNumber
      THEN [path |-> base, probed |-> probed \cup {disc_number},
            overflow |-> TRUE]
      ELSE MovieProbe(tree, base, disc_number + 1, probed \cup {disc_number})

Abs(x) == IF x < 0 THEN -x ELSE x

\* a denominator that is the duration of the new disc itself
Denominator_unguarded(new_total_duration) == new_total_duration

\* max(new_total_duration, 1)
Denominator(new_total_duration) ==
  IF new_total_duration > 1 THEN new_total_duration ELSE 1

\* the comparison without titles_match
SameMovie_duration_only(existing_titles, existing_duration, new_titles, new_total_duration) ==
  LET denom == IF new_total_duration > 1 THEN new_total_duration ELSE 1
  IN  Abs(existing_duration - new_total_duration) * 100 < 5 * denom

\* titles_match and duration_diff_pct < 5 of the movie branch:
\* abs(existing - new) / max(new, 1) * 100 < 5
SameMovie(existing_titles, existing_duration, new_titles, new_total_duration) ==
  LET denom == Denominator(new_total_duration)
  IN  /\ Abs(existing_titles - new_titles) <= 1
      /\ Abs(existing_duration - new_total_duration) * 100 < 5 * denom

\* the movie comparison on its own: the division raises when the
\* denominator is zero
CompareMovie(existing_titles, existing_duration, new_titles, new_total_duration) ==
  IF Denominator(new_total_duration) = 0 THEN "ZeroDivisionError"
  ELSE IF SameMovie(existing_titles, existing_duration, new_titles,
                    new_total_duration)
  THEN "SKIP_DUPLICATE" ELSE "USE_PATH"

\* What the movie branch compares the folder with: every title of
\* disc_info.titles
NewTitleCount(titles) == Len(titles)

NewTotalDuration(titles) ==
  SeqSum([i \in 1..Len(titles) |-> titles[i].duration])

\* output_path = base_output_path, disc_already_ripped = False,
\* existing_path = None
Fresh(base) ==
  [branch |-> "FRESH", disc_already_ripped |-> FALSE,
   existing_path |-> NoPath, output_path |-> base,
   probed |-> {}, overflow |-> FALSE, compared |-> FALSE]

\* STRATEGY 1: the disc identity is in the store
DuplicateById(base, db, disc_id) ==
  [Fresh(base) EXCEPT !.branch = "DUPLICATE_BY_ID",
                      !.disc_already_ripped = TRUE,
                      !.existing_path = get_disc(db, disc_id)]

\* STRATEGY 2 and 3: the numbering of series, the comparison and the
\* numbering of movies.  existing_duration is what _get_folder_duration
\* reports for the base folder.
ResolveByType(content_type, titles, base, tree, existing_duration) ==
  IF content_type = TV_SHOW
  THEN LET r == TvProbe(tree, base, IF Occupied(tree, base) THEN 2 ELSE 1, {})
       IN  [Fresh(base) EXCEPT !.branch = "TV_NEXT_DISC",
                               !.output_path = r.path,
                               !.probed = r.probed,
                               !.overflow = r.overflow]
  ELSE IF SameMovie(tree[base].mkv, existing_duration,
                    NewTitleCount(titles), NewTotalDuration(titles))
  THEN [Fresh(base) EXCEPT !.branch = "MOVIE_VARIANT",
                           !.compared = TRUE,
                           !.disc_already_ripped = TRUE,
                           !.existing_path = base]
  ELSE LET r == MovieProbe(tree, base, 2, {})
       IN  [Fresh(base) EXCEPT !.branch = "MOVIE_VARIANT",
                               !.compared = TRUE,
                               !.output_path = r.path,
                               !.probed = r.probed,
                               !.overflow = r.overflow]

\* the resolution with the store consulted before the folder is looked at
ResolveOutput_store_first(content_type, disc_id, titles, base, tree, db, overwrite_existing, existing_duration) ==
  IF HasId(disc_id) /\ has_disc(db, disc_id)
  THEN DuplicateById(base, db, disc_id)
  ELSE IF Occupied(tree, base) /\ ~overwrite_existing
  THEN ResolveByType(content_type, titles, base, tree, existing_duration)
  ELSE Fresh(base)

\* Lines 258-340 of _process_disc: the branch taken, whether the disc counts
\* as already ripped, existing_path and output_path
ResolveOutput(content_type, disc_id, titles, base, tree, db, overwrite_existing, existing_duration) ==
  IF Occupied(tree, base) /\ ~overwrite_existing
  THEN IF HasId(disc_id) /\ has_disc(db, disc_id)
       THEN DuplicateById(base, db, disc_id)
       ELSE ResolveByType(content_type, titles, base, tree, existing_duration)
  ELSE Fresh(base)

(***************************************************************************)
(* State                                                                   *)
(***************************************************************************)
VARIABLES
  config,         \* detection.forced_types / overwrite_existing,
                  \* paths.movies / tv_shows
  shelf,          \* the discs that can be inserted, and how many runs of
                  \* _process_disc are followed
  tray,           \* the disc in the drive: name, disc_id, titles; or NoDisc
  tree,           \* the output directory tree
  disc_db,        \* DiscDatabase._data
  disc_inserted,  \* DiscMonitor.disc_inserted
  lock_file,      \* /tmp/makemkv-auto-ripping.lock: "absent", "stale" or a pid
  state,          \* ServiceState: status, disc_name, error, last_rip
  decision,       \* what the last _process_disc resolved and did
  detection,      \* the last DetectionResult of a direct detect call
  results,        \* the verdicts handed to the last vote, <<>> if none
  monitors,       \* the monitor processes that poll one drive: where each
                  \* is in _check_disc, and its disc_inserted
  restored,       \* what ServiceState.from_dict made of the saved state
  rip_log,        \* the rips that completed: output path and files found
  events          \* number of _process_disc runs so far

vars == <<config, shelf, tray, tree, disc_db, disc_inserted, lock_file, state,
          decision, detection, results, monitors, restored, rip_log, events>>

(***************************************************************************)
(* Inputs                                                                  *)
(***************************************************************************)
\* bounds of the model
MaxEvents == 1

MaxSeriesEvents == 3

MaxTitles == 3

MaxOverrides == 2

MaxVerdicts == 3

NoDisc == [name |-> None, disc_id |-> None, titles |-> <<>>]

Title(index, duration, size_bytes) ==
  [index |-> index, duration |-> duration, size_bytes |-> size_bytes]

Sherlock == <<"S","h","e","r","l","o","c","k">>

Film == <<"F","i","l","m">>

IdX == <<"X">>

IdY == <<"Y">>

MoviesRoot == "Peliculas"

TvRoot == "Series"

\* one title of 121 minutes
OneFeature == <<Title(0, 7260, 20)>>

\* the same feature with two extras under ten minutes
FeatureWithExtras == <<Title(0, 7260, 20), Title(1, 300, 1), Title(2, 300, 1)>>

\* two titles totalling 200 minutes, one dominant
TwoTitles == <<Title(0, 9000, 30), Title(1, 3000, 5)>>

\* two episodes of 45 minutes
TwoEpisodes == <<Title(0, 2700, 4), Title(1, 2700, 4)>>

Disc(name, disc_id, titles) ==
  [name |-> name, disc_id |-> disc_id, titles |-> titles]

\* the raw name of the second disc of the series
SherlockDisc2 == Sherlock \o <<" ","D","i","s","c"," ","2">>

\* ServiceStatus: a member of the enum, or the plain string to_dict writes
ServiceStatus(value) == [kind |-> "ServiceStatus", value |-> value]

\* LastRipInfo, the dict asdict makes of it, or None (kind "None")
LastRipInfo(name, completed_at, output_path, file_count, total_size_mb) ==
  [kind |-> "LastRipInfo", name |-> name, completed_at |-> completed_at,
   output_path |-> output_path, file_count |-> file_count,
   total_size_mb |-> total_size_mb]

NoLastRip ==
  [kind |-> "None", name |-> "", completed_at |-> "", output_path |-> "",
   file_count |-> 0, total_size_mb |-> 0]

\* ServiceState with its defaults
ServiceState ==
  [status |-> ServiceStatus("idle"), disc_name |-> "<None>",
   sanitized_name |-> "<None>", content_type |-> "<None>",
   progress_percent |-> 0, current_title |-> 0, total_titles |-> 0,
   start_time |-> "<None>", eta_seconds |-> -1, error_message |-> "<None>",
   last_updated |-> "2024-01-01T00:00:00", last_rip |-> NoLastRip,
   device |-> "/dev/sr0"]

\* ServiceState.to_dict: asdict turns the nested LastRipInfo into a dict,
\* and the status is replaced by its value
to_dict(self) ==
  [self EXCEPT
     !.status = [kind |-> "str", value |-> self.status.value],
     !.last_rip = IF self.last_rip.kind = "LastRipInfo"
                  THEN [self.last_rip EXCEPT !.kind = "dict"]
                  ELSE self.last_rip]

\* from_dict that passes the nested dict on as it is
from_dict_nested_dict(data) ==
  [data EXCEPT
     !.status = IF data.status.kind \in {"str", "ServiceStatus"}
                THEN ServiceStatus(data.status.value) ELSE @]

\* ServiceState.from_dict: a str status becomes the enum member (members of
\* ServiceStatus are instances of str too), a non-empty dict under last_rip
\* becomes a LastRipInfo; every key of the model is a field of the class
from_dict(data) ==
  [data EXCEPT
     !.status = IF data.status.kind \in {"str", "ServiceStatus"}
                THEN ServiceStatus(data.status.value) ELSE @,
     !.last_rip = IF data.last_rip.kind = "dict"
                  THEN [data.last_rip EXCEPT !.kind = "LastRipInfo"]
                  ELSE @]

\* nothing has been restored yet
NotLoaded == [ServiceState EXCEPT !.device = "<not loaded>"]

\* the pids of two monitor processes started on the same drive
Monitors == {"pid1", "pid2"}

\* a monitor between two polls; last is what its last _is_ripping found and
\* unlinked what its last unlink of the lock file removed
Polling ==
  [pc |-> "poll", disc_inserted |-> FALSE, last |-> "none", unlinked |-> "none"]

NoMonitors == [m \in Monitors |-> Polling]

MonitorDiscs ==
  { Disc(Sherlock, None, TwoEpisodes), Disc(Sherlock, IdX, TwoEpisodes),
    Disc(Sherlock, IdY, OneFeature),
    Disc(Film, None, OneFeature), Disc(Film, IdX, OneFeature),
    Disc(Film, None, FeatureWithExtras), Disc(Film, None, TwoTitles),
    Disc(Film, IdX, <<>>), Disc(SherlockDisc2, IdY, TwoEpisodes) }

\* discs of one series, told apart by identity or not at all
SeriesDiscs ==
  { Disc(Sherlock, None, TwoEpisodes), Disc(Sherlock, IdY, TwoEpisodes) }

\* what _get_folder_duration may report for the base folder (seconds)
ExistingDurations == {0, 7200, 7623, 12000}

\* folders of the library before the monitor starts: 1 is the base folder
FillSets == {{}, {1}, {1, 2}, {1, 3}, 1..(MaxDiscNumber - 1), 1..MaxDiscNumber}

TvFolder(k) == <<TvRoot, TvName(Sherlock, k)>>

MovieFolder(k) == <<MoviesRoot, IF k = 1 THEN Film ELSE MovieName(Film, k)>>

Folder(mkv, other) == [mkv |-> mkv, other |-> other]

\* either the series library or the movie library holds folders already
InitTrees ==
  {[p \in {TvFolder(k) : k \in s1} |-> Folder(1, FALSE)] : s1 \in FillSets}
  \cup
  {[p \in {MovieFolder(k) : k \in s2} |->
      IF p = MovieFolder(1) THEN b ELSE Folder(1, FALSE)] :
     s2 \in FillSets \ {{}},
     b \in {Folder(1, FALSE), Folder(2, FALSE), Folder(0, TRUE)}}

EmptyTree == [p \in {} |-> Folder(0, FALSE)]

EmptyDb == [i \in {} |-> [name |-> <<>>, output_path |-> NoPath]]

InitDbs ==
  {EmptyDb, add_disc(EmptyDb, IdX, Sherlock, TvFolder(2))}

\* what makemkvcon did when rip_disc ran it: whether it could be started,
\* whether its stderr held "evaluation" or "unregistered", its exit status
NoRun == [found |-> FALSE, evaluation |-> FALSE, returncode |-> 0]

MakemkvconRuns ==
  {NoRun} \cup {[found |-> TRUE, evaluation |-> e, returncode |-> rc] :
                  e \in BOOLEAN, rc \in {0, 1}}

NoDecision ==
  [outcome |-> "none", action |-> "NONE", path |-> NoPath, base |-> NoPath,
   branch |-> "NONE", probed |-> {}, overflow |-> FALSE,
   ripper_invoked |-> FALSE, disc |-> NoDisc, content_type |-> UNKNOWN,
   existing_titles |-> 0, existing_duration |-> 0,
   makemkvcon |-> NoRun,
   tree_before |-> EmptyTree, db_before |-> EmptyDb]

NoDetection == Result(UNKNOWN, "none", "none", <<>>, None)

IdleState ==
  [status |-> "idle", disc_name |-> None, error_message |-> "",
   last_rip |-> [name |-> None, output_path |-> NoPath, file_count |-> 0]]

(***************************************************************************)
(* The monitor                                                             *)
(***************************************************************************)
\* the monitor starts on a library that holds folders already
InitLibrary ==
  /\ config \in [forced_types : {<<>>},
                 overwrite_existing : BOOLEAN,
                 movies : {MoviesRoot, "<None>"},
                 tv_shows : {TvRoot}]
  /\ shelf = [discs |-> MonitorDiscs, limit |-> MaxEvents]
  /\ tray = NoDisc
  /\ tree \in InitTrees
  /\ disc_db \in InitDbs
  /\ disc_inserted = FALSE
  /\ lock_file \in {"absent", "stale"}
  /\ state = IdleState
  /\ decision = NoDecision
  /\ detection = NoDetection
  /\ results = <<>>
  /\ monitors = NoMonitors
  /\ restored = NotLoaded
  /\ rip_log = <<>>
  /\ events = 0

\* the discs of one series, inserted one after the other, and an empty
\* library
InitSeries ==
  /\ config = [forced_types |-> <<>>, overwrite_existing |-> FALSE,
               movies |-> MoviesRoot, tv_shows |-> TvRoot]
  /\ shelf = [discs |-> SeriesDiscs, limit |-> MaxSeriesEvents]
  /\ tray = NoDisc
  /\ tree = EmptyTree
  /\ disc_db = EmptyDb
  /\ disc_inserted = FALSE
  /\ lock_file = "absent"
  /\ state = IdleState
  /\ decision = NoDecision
  /\ detection = NoDetection
  /\ results = <<>>
  /\ monitors = NoMonitors
  /\ restored = NotLoaded
  /\ rip_log = <<>>
  /\ events = 0

Init == InitLibrary \/ InitSeries

\* a disc is put into the drive
InsertDisc ==
  /\ tray = NoDisc
  /\ events < shelf.limit
  /\ tray' \in shelf.discs
  /\ UNCHANGED <<config, shelf, tree, disc_db, disc_inserted, lock_file, state,
                 decision, detection, results, monitors, restored, rip_log, events>>

\* the disc is taken out of the drive, by hand or by `eject`
RemoveDisc ==
  /\ tray # NoDisc
  /\ tray' = NoDisc
  /\ UNCHANGED <<config, shelf, tree, disc_db, disc_inserted, lock_file, state,
                 decision, detection, results, monitors, restored, rip_log, events>>

\* StateManager.start_rip / complete_rip / set_error
start_rip(st, disc_name) ==
  [st EXCEPT !.status = "ripping", !.disc_name = disc_name,
             !.error_message = ""]

complete_rip(st, output_path, file_count) ==
  [st EXCEPT !.status = "idle",
             !.last_rip = [name |-> st.disc_name, output_path |-> output_path,
                           file_count |-> file_count]]

\* set_error that records the message and leaves the status
set_error_message_only(st, error_message) ==
  [st EXCEPT !.error_message = error_message]

set_error(st, error_message) ==
  [st EXCEPT !.status = "error", !.error_message = error_message]

\* number of titles makemkvcon saves with --minlength
DEFAULT_MIN_LENGTH == 600

Savable(titles) ==
  Len(SelectSeq(titles, LAMBDA t : t.duration >= DEFAULT_MIN_LENGTH))

\* output_path.mkdir(parents=True, exist_ok=True)
Mkdir(tr, path) ==
  IF path \in DOMAIN tr THEN tr
  ELSE [p \in DOMAIN tr \cup {path} |->
          IF p = path THEN Folder(0, FALSE) ELSE tr[p]]

\* _check_disc returned early: the device node is missing
CheckDeviceMissing ==
  /\ UNCHANGED vars

\* _check_disc with nothing to do: no disc and none recorded, or the disc
\* that was already seen is still there.  present is what _is_disc_present
\* reports (False also when makemkvcon times out).
CheckNoChange ==
  \E present \in (IF tray = NoDisc THEN {FALSE} ELSE {TRUE, FALSE}) :
    /\ lock_file \in {"absent", "stale"}
    /\ present = disc_inserted
    /\ lock_file' = "absent"
    /\ UNCHANGED <<config, shelf, tray, tree, disc_db, disc_inserted, state,
                   decision, detection, results, monitors, restored, rip_log, events>>

\* _check_disc sees that the disc is gone
CheckDiscRemoved ==
  \E present \in (IF tray = NoDisc THEN {FALSE} ELSE {TRUE, FALSE}) :
    /\ lock_file \in {"absent", "stale"}
    /\ ~present /\ disc_inserted
    /\ disc_inserted' = FALSE
    /\ lock_file' = "absent"
    /\ UNCHANGED <<config, shelf, tray, tree, disc_db, state, decision,
                   detection, results, monitors, restored, rip_log, events>>

\* _process_disc fails before the output path is resolved
ProcessError(message, st) ==
  /\ state' = set_error(st, message)
  /\ decision' = [NoDecision EXCEPT !.outcome = "error", !.disc = tray]
  /\ UNCHANGED <<config, shelf, tray, tree, disc_db, detection, results, monitors, restored, rip_log>>

\* what the rip can leave in a folder that held `old` .mkv files: nothing
\* new, or one file per title of at least --minlength seconds, under names
\* that are new to the folder or that replace the files there
RipCounts(old, titles) ==
  {old, old + Savable(titles),
   IF old > Savable(titles) THEN old ELSE Savable(titles)}

\* _process_disc from the resolution of the output path on.  The `eject`
\* it ends with acts on the drive only: RemoveDisc is its effect.
ProcessResolved(disc_info, r) ==
  LET base_output_path == r.base
      st1 == start_rip(state, disc_info.name)
      d0 == [NoDecision EXCEPT
               !.disc = tray, !.content_type = disc_info.content_type,
               !.base = base_output_path, !.branch = r.branch,
               !.probed = r.probed, !.overflow = r.overflow,
               !.existing_titles =
                  IF r.compared THEN tree[base_output_path].mkv ELSE 0,
               !.existing_duration = r.existing_duration,
               !.tree_before = tree, !.db_before = disc_db]
      made  == Mkdir(tree, r.output_path)
  IN  IF r.disc_already_ripped
      THEN LET reported == IF r.existing_path # NoPath
                           THEN r.existing_path ELSE base_output_path
           IN  /\ state' = complete_rip(st1, reported, 0)
               /\ decision' = [d0 EXCEPT !.outcome = "skipped",
                                         !.action = "SKIP_DUPLICATE",
                                         !.path = reported]
               /\ UNCHANGED <<config, shelf, tray, tree, disc_db, detection,
                              results, monitors, restored, rip_log>>
      ELSE \E run \in MakemkvconRuns :
           \E count \in RipCounts(made[r.output_path].mkv, disc_info.titles) :
           LET result == rip_disc(run.found, run.evaluation, run.returncode)
               d1     == [d0 EXCEPT !.makemkvcon = run]
           IN
             /\ tree' = [made EXCEPT ![r.output_path].mkv = count]
             /\ IF result = "ok"
                THEN /\ state' = complete_rip(st1, r.output_path, count)
                     /\ disc_db' = IF HasId(disc_info.disc_id)
                                   THEN add_disc(disc_db, disc_info.disc_id,
                                                 disc_info.name, r.output_path)
                                   ELSE disc_db
                     /\ decision' = [d1 EXCEPT !.outcome = "ripped",
                                               !.action = "USE_PATH",
                                               !.path = r.output_path,
                                               !.ripper_invoked = TRUE]
                     /\ rip_log' = Append(rip_log,
                                          [path |-> r.output_path,
                                           file_count |-> count])
                ELSE /\ state' = set_error(st1, "Rip failed")
                     /\ disc_db' = disc_db
                     /\ rip_log' = rip_log
                     /\ decision' = [d1 EXCEPT !.outcome = "rip_failed",
                                               !.action = "USE_PATH",
                                               !.path = r.output_path,
                                               !.ripper_invoked = TRUE]
             /\ UNCHANGED <<config, shelf, tray, results, monitors, restored, detection>>

\* the movies root for movies only
LibraryRoot_movie_only(content_type) ==
  IF content_type = MOVIE THEN config.movies ELSE config.tv_shows

\* the library root of a content type: config.paths.tv_shows for "tvshow",
\* config.paths.movies for everything else
LibraryRoot(content_type) ==
  IF content_type = TV_SHOW THEN config.tv_shows ELSE config.movies

\* the resolutions of the output path that _process_disc can reach for
\* disc_info, over what _get_folder_duration reports
Resolutions(disc_info) ==
  LET base == <<LibraryRoot(disc_info.content_type), disc_info.sanitized_name>>
  IN  {LET r == ResolveOutput(disc_info.content_type, disc_info.disc_id,
                              disc_info.titles, base, tree, disc_db,
                              config.overwrite_existing, existing_duration)
       IN  [branch |-> r.branch, disc_already_ripped |-> r.disc_already_ripped,
            existing_path |-> r.existing_path, output_path |-> r.output_path,
            probed |-> r.probed, overflow |-> r.overflow,
            compared |-> r.compared, base |-> base,
            existing_duration |->
               IF r.compared THEN existing_duration ELSE 0] :
         existing_duration \in ExistingDurations}

\* DiscAnalyzer.get_disc_info: DiscInfo of the disc in the drive
DiscInfos(disc) ==
  {[name |-> disc.name, sanitized_name |-> _sanitize_name(disc.name),
    content_type |-> res.content_type, confidence |-> res.confidence,
    titles |-> disc.titles, disc_id |-> disc.disc_id] :
     res \in detect(disc.titles, disc.name, config.forced_types,
                    DEFAULT_MIN_MOVIE_DURATION)}

\* a check that forgets the disc when its analysis failed
CheckNewDiscAnalysisFails_retry ==
  /\ lock_file \in {"absent", "stale"}
  /\ tray # NoDisc /\ ~disc_inserted
  /\ events < shelf.limit
  /\ disc_inserted' = FALSE
  /\ lock_file' = "absent"
  /\ events' = events + 1
  /\ ProcessError("DiscError", state)

\* _check_disc finds a new disc and get_disc_info raises
CheckNewDiscAnalysisFails ==
  /\ lock_file \in {"absent", "stale"}
  /\ tray # NoDisc /\ ~disc_inserted
  /\ events < shelf.limit
  /\ disc_inserted' = TRUE
  /\ lock_file' = "absent"
  /\ events' = events + 1
  /\ ProcessError("DiscError", state)

\* _check_disc finds a new disc, the analysis succeeds, and the library
\* path of its content type is not configured
CheckNewDiscNoPath ==
  /\ lock_file \in {"absent", "stale"}
  /\ tray # NoDisc /\ ~disc_inserted
  /\ events < shelf.limit
  /\ disc_inserted' = TRUE
  /\ lock_file' = "absent"
  /\ events' = events + 1
  /\ \E disc_info \in DiscInfos(tray) :
       /\ LibraryRoot(disc_info.content_type) = "<None>"
       /\ ProcessError("path not configured",
                       start_rip(state, disc_info.name))

\* _check_disc finds a new disc and _process_disc runs to its end
CheckNewDisc ==
  /\ lock_file \in {"absent", "stale"}
  /\ tray # NoDisc /\ ~disc_inserted
  /\ events < shelf.limit
  /\ disc_inserted' = TRUE
  /\ lock_file' = "absent"
  /\ events' = events + 1
  /\ \E disc_info \in DiscInfos(tray) :
       /\ LibraryRoot(disc_info.content_type) # "<None>"
       /\ \E r \in Resolutions(disc_info) : ProcessResolved(disc_info, r)

Next ==
  \/ InsertDisc
  \/ RemoveDisc
  \/ CheckDeviceMissing
  \/ CheckNoChange
  \/ CheckDiscRemoved
  \/ CheckNewDiscAnalysisFails
  \/ CheckNewDiscNoPath
  \/ CheckNewDisc

Spec == Init /\ [][Next]_vars

(***************************************************************************)
(* Inputs of direct detect calls                                           *)
(***************************************************************************)
\* disc names that exercise the name patterns
CoreNames ==
  { <<>>  \* ''
  , <<"F","i","l","m">>  \* 'Film'
  , <<"F","I","L","M">>  \* 'FILM'
  , <<"F","i","l","m"," ","(","1","9","9","9",")">>  \* 'Film (1999)'
  , <<"F","i","l","m"," ","(","1","9","9","9",")"," ","(","2","0","0","0",")">>  \* 'Film (1999) (2000)'
  , <<"F","i","l","m"," ","1","9","9","9">>  \* 'Film 1999'
  , <<"X"," ","V","o","l"," ","2">>  \* 'X Vol 2'
  , <<"X"," ","v","o","l","2">>  \* 'X vol2'
  , <<"S","h","o","w"," ","D","i","s","c"," ","1">>  \* 'Show Disc 1'
  , <<"S","h","o","w"," ","-"," ","D","i","s","c"," ","3">>  \* 'Show - Disc 3'
  , <<"S","h","o","w",":"," ","P","a","r","t"," ","2">>  \* 'Show: Part 2'
  , <<"S","h","o","w"," ","V","o","l","u","m","e"," ","1","0">>  \* 'Show Volume 10'
  , <<"S","h","o","w"," ","S","e","a","s","o","n"," ","1">>  \* 'Show Season 1'
  , <<"S","h","o","w"," ","S","0","1">>  \* 'Show S01'
  , <<"S","h","o","w"," ","S","0","1"," ","D","i","s","c"," ","2">>  \* 'Show S01 Disc 2'
  , <<"C","r","i","t","e","r","i","o","n"," ","F","i","l","m">>  \* 'Criterion Film'
  , <<"F","i","l","m"," ","E","x","t","e","n","d","e","d"," "," ","C","u","t">>  \* 'Film Extended  Cut'
  , <<"D","e","v","o","l"," ","2">>  \* 'Devol 2'
  , <<"T","h","e"," ","C","o","m","p","l","e","t","e"," ","F","i","l","m">>  \* 'The Complete Film'
  , <<"F","i","l","m"," ","D","i","s","c">>  \* 'Film Disc'
  , <<"D","i","s","c"," ","2"," ","F","i","l","m">>  \* 'Disc 2 Film'
  , <<"F","i","l","m"," ","P","a","r","t"," ","2"," ","E","x","t","r","a","s">>  \* 'Film Part 2 Extras'
  , <<"A","/","B",":"," ","C">>  \* 'A/B: C'
  , <<"B","o","x"," ","S","e","t">>  \* 'Box Set'
  , <<"E","p","i","s","o","d","e","s">>  \* 'Episodes'
  , <<"H","i","s"," ","D","a","r","k"," ","M","a","t","e","r","i","a","l","s">>  \* 'His Dark Materials'
  , <<"F","i","l","m"," ","(","1","9","9","9",")"," ","D","i","s","c"," ","1">>  \* 'Film (1999) Disc 1'
  , <<"F","i","l","m"," ","P","a","r","t"," ","I","I">>  \* 'Film Part II'
  }

\* names that end in a multi-disc token: a title, a separator, one of the
\* words in some case, optional blanks and a number
TokenNames ==
  {b \o sep \o w \o sp \o num :
     b   \in {<<"X">>, <<"M","y"," ","F","i","l","m">>},
     sep \in {<<" ">>, <<" ","-"," ">>, <<":"," ">>},
     w   \in {<<"D","i","s","c">>, <<"d","i","s","c">>, <<"P","A","R","T">>,
              <<"V","o","l","u","m","e">>, <<"V","o","l">>},
     sp  \in {<<>>, <<" ">>},
     num \in {<<"2">>, <<"1","0">>}}

\* names that contain a registry entry: the entry itself, in upper case, and
\* inside a longer name
RegistryNames ==
  UNION {{e, Upper(e), <<"B","B","C">> \o e \o <<" ","D","V","D">>,
          <<"B","B","C"," ">> \o Upper(e)} : e \in KNOWN_TV_SHOWS}

\* keys of the forced_types maps, and the disc names tried against them
OverrideKeys ==
  {Film, Lower(Film), Sherlock, <<"X"," ","V","o","l"," ","2">>}

OverrideNames ==
  OverrideKeys \cup {Upper(k) : k \in OverrideKeys}
               \cup {<<"O","t","h","e","r">>}

\* forced_types: up to MaxOverrides entries with distinct keys, each forcing
\* "tvshow" or "movie" (config.py:72-76)
OverrideMaps ==
  {m \in UNION {[1..n -> OverrideKeys \X {"tvshow", "movie"}] :
                   n \in 0..MaxOverrides} :
     \A i, j \in 1..Len(m) : i # j => m[i][1] # m[j][1]}

\* titles as <<duration, size>>: under and at the ten-minute filter, episode
\* and feature lengths
TitleChoices ==
  << <<300, 1>>, <<599, 0>>, <<600, 2>>, <<1380, 2>>, <<2700, 4>>,
     <<3300, 4>>, <<5700, 20>>, <<7800, 11>>, <<9000, 5>>, <<9000, 30>> >>

\* the title lists of up to MaxTitles titles, shortest title first
TitleLists ==
  UNION {{[i \in 1..n |->
             Title(i - 1, TitleChoices[c[i]][1], TitleChoices[c[i]][2])] :
            c \in {f \in [1..n -> 1..Len(TitleChoices)] :
                     \A i \in 1..(n - 1) : f[i] <= f[i + 1]}} :
         n \in 0..MaxTitles}

ProbeLists ==
  { <<>>, <<Title(0, 300, 1)>>, OneFeature, <<Title(0, 9000, 30)>>,
    TwoEpisodes, TwoTitles }

\* title lists for direct calls of _combine_results: none, and longest
\* titles of 50 minutes, one second under 90 minutes, 90 and 95 minutes
CombineLists ==
  { <<>>, <<Title(0, 3000, 4)>>, <<Title(0, 5399, 4)>>, <<Title(0, 5400, 4)>>,
    <<Title(0, 5700, 4)>>, <<Title(0, 3000, 4), Title(1, 5700, 4)>> }

\* verdicts for direct calls of _combine_results: each class with each
\* confidence a signal can report
VerdictChoices ==
  {Verdict(ct, conf, Reason("signal says", 0, <<ct, conf>>)) :
     ct \in {TV_SHOW, MOVIE}, conf \in {"high", "medium", "low"}}
  \cup {Verdict(UNKNOWN, "low", Reason("signal says", 0, <<UNKNOWN, "low">>))}

VerdictLists ==
  UNION {[1..n -> VerdictChoices] : n \in 0..MaxVerdicts}

\* four episodes of 22, 23, 24 and 25 minutes: sizes alike, one file
\* dominant, sizes unknown
SitcomLists ==
  {[i \in 1..4 |-> Title(i - 1, 1260 + 60 * i, s[i])] :
     s \in {<<1, 1, 1, 1>>, <<1, 1, 1, 20>>, <<0, 0, 0, 0>>, <<1, 2, 4, 8>>}}

\* titles of 40 and 55 minutes, and of 60, 75 and 90 minutes: spread out
\* by just over and just under what the variance of 100 allows
SpreadLists ==
  { <<Title(0, 2400, 4), Title(1, 3300, 4)>>,
    <<Title(0, 3600, 4), Title(1, 4500, 4), Title(2, 5400, 4)>>,
    <<Title(0, 2400, 4), Title(1, 3240, 4)>> }

DetectInputs ==
  {<<n, t, <<>>>> : n \in CoreNames \cup TokenNames, t \in TitleLists}
  \cup {<<Film, t, <<>>>> : t \in CombineLists \cup SitcomLists \cup SpreadLists}
  \cup {<<n, t, <<>>>> : n \in RegistryNames, t \in ProbeLists}
  \cup {<<n, t, m>> : n \in OverrideNames, t \in ProbeLists, m \in OverrideMaps}

(***************************************************************************)
(* detect called on its own                                                *)
(***************************************************************************)
InitDetect ==
  /\ \E in \in DetectInputs :
       /\ tray = Disc(in[1], None, in[2])
       /\ config = [forced_types |-> in[3], overwrite_existing |-> FALSE,
                    movies |-> MoviesRoot, tv_shows |-> TvRoot]
  /\ shelf = [discs |-> {}, limit |-> 0]
  /\ tree = EmptyTree
  /\ disc_db = EmptyDb
  /\ disc_inserted = FALSE
  /\ lock_file = "absent"
  /\ state = IdleState
  /\ decision = NoDecision
  /\ detection = NoDetection
  /\ results = <<>>
  /\ monitors = NoMonitors
  /\ restored = NotLoaded
  /\ rip_log = <<>>
  /\ events = 0

\* SmartContentDetector.detect(titles, disc_name)
RunDetect ==
  /\ detection = NoDetection
  /\ detection' \in detect(tray.titles, tray.name, config.forced_types,
                           DEFAULT_MIN_MOVIE_DURATION)
  /\ results' = VotedOn(tray.titles, tray.name, config.forced_types,
                        DEFAULT_MIN_MOVIE_DURATION)
  /\ UNCHANGED <<config, shelf, tray, tree, disc_db, disc_inserted, lock_file,
                 state, decision, monitors, restored, rip_log, events>>

\* SmartContentDetector._combine_results(results, disc_name, titles) called
\* on its own
RunCombine ==
  /\ detection = NoDetection
  /\ tray.name = Film /\ tray.titles \in CombineLists
  /\ config.forced_types = <<>>
  /\ \E rs \in VerdictLists :
       /\ results' = rs
       /\ detection' = _combine_results(rs, tray.name, tray.titles)
  /\ UNCHANGED <<config, shelf, tray, tree, disc_db, disc_inserted, lock_file,
                 state, decision, monitors, restored, rip_log, events>>

NextDetect == RunDetect \/ RunCombine

SpecDetect == InitDetect /\ [][NextDetect]_vars

(***************************************************************************)
(* Two monitor processes on one drive: the steps of _check_disc and of     *)
(* _process_disc that touch /tmp/makemkv-auto-ripping.lock.  The steps of  *)
(* one process run in program order; the steps of the two interleave.      *)
(***************************************************************************)
InitLock ==
  /\ config = [forced_types |-> <<>>, overwrite_existing |-> FALSE,
               movies |-> MoviesRoot, tv_shows |-> TvRoot]
  /\ shelf = [discs |-> {Disc(Film, None, OneFeature)}, limit |-> 1]
  /\ tray = NoDisc
  /\ tree = EmptyTree
  /\ disc_db = EmptyDb
  /\ disc_inserted = FALSE
  /\ lock_file \in {"absent", "stale"}
  /\ state = IdleState
  /\ decision = NoDecision
  /\ detection = NoDetection
  /\ results = <<>>
  /\ monitors = NoMonitors
  /\ restored = NotLoaded
  /\ rip_log = <<>>
  /\ events = 0

\* _check_disc of m up to the return of _is_ripping: a lock with the pid of
\* a running process ends the check, a lock with a dead pid is unlinked
IsRipping(m) ==
  /\ monitors[m].pc = "poll"
  /\ IF lock_file \in Monitors
     THEN /\ monitors' = [monitors EXCEPT ![m].last = "ripping"]
          /\ UNCHANGED lock_file
     ELSE /\ monitors' = [monitors EXCEPT
                            ![m].pc = "scan", ![m].last = "not_ripping",
                            ![m].unlinked = IF lock_file = "stale"
                                            THEN "stale" ELSE @]
          /\ lock_file' = "absent"
  /\ UNCHANGED <<config, shelf, tray, tree, disc_db, disc_inserted, state,
                 decision, detection, results, restored, rip_log, events>>

\* _check_disc of m from _is_disc_present to the sleep before _process_disc
ScanDrive(m) ==
  /\ monitors[m].pc = "scan"
  /\ LET present == tray # NoDisc
     IN  monitors' =
           IF present /\ ~monitors[m].disc_inserted
           THEN [monitors EXCEPT ![m].pc = "settle", ![m].disc_inserted = TRUE]
           ELSE IF ~present /\ monitors[m].disc_inserted
           THEN [monitors EXCEPT ![m].pc = "poll", ![m].disc_inserted = FALSE]
           ELSE [monitors EXCEPT ![m].pc = "poll"]
  /\ UNCHANGED <<config, shelf, tray, tree, disc_db, disc_inserted, lock_file,
                 state, decision, detection, results, restored, rip_log, events>>

\* _process_disc of m writes its pid to the lock file and enters the try
\* block
WriteLock(m) ==
  /\ monitors[m].pc = "settle"
  /\ lock_file' = m
  /\ monitors' = [monitors EXCEPT ![m].pc = "process"]
  /\ UNCHANGED <<config, shelf, tray, tree, disc_db, disc_inserted, state,
                 decision, detection, results, restored, rip_log, events>>

\* _process_disc of m leaves the try block: the finally clause unlinks the
\* lock file whatever it holds
Unlink(m) ==
  /\ monitors[m].pc = "process"
  /\ lock_file' = "absent"
  /\ monitors' = [monitors EXCEPT
                    ![m].pc = "poll",
                    ![m].unlinked = IF lock_file = m THEN "own"
                                    ELSE IF lock_file \in Monitors THEN "other"
                                    ELSE lock_file]
  /\ UNCHANGED <<config, shelf, tray, tree, disc_db, disc_inserted, state,
                 decision, detection, results, restored, rip_log, events>>

NextLock ==
  \/ InsertDisc
  \/ RemoveDisc
  \/ \E m \in Monitors : IsRipping(m)
  \/ \E m \in Monitors : ScanDrive(m)
  \/ \E m \in Monitors : WriteLock(m)
  \/ \E m \in Monitors : Unlink(m)

SpecLock == InitLock /\ [][NextLock]_vars

(***************************************************************************)
(* The arithmetic of the signals and of the movie comparison on title      *)
(* lists as makemkvcon can report them: durations and sizes of zero too    *)
(***************************************************************************)
\* duration in seconds and size in GiB of a title
ArithChoices ==
  {<<d, s>> : d \in {0, 59, 2700, 7200}, s \in {0, 4}}

ArithLists ==
  UNION {{[i \in 1..n |-> Title(i - 1, c[i][1], c[i][2])] :
            c \in [1..n -> ArithChoices]} : n \in 0..MaxTitles}

InitArith ==
  /\ config = [forced_types |-> <<>>, overwrite_existing |-> FALSE,
               movies |-> MoviesRoot, tv_shows |-> TvRoot]
  /\ shelf = [discs |-> {}, limit |-> 0]
  /\ tray \in {Disc(Film, None, t) : t \in ArithLists}
  /\ tree = EmptyTree
  /\ disc_db = EmptyDb
  /\ disc_inserted = FALSE
  /\ lock_file = "absent"
  /\ state = IdleState
  /\ decision = NoDecision
  /\ detection = NoDetection
  /\ results = <<>>
  /\ monitors = NoMonitors
  /\ restored = NotLoaded
  /\ rip_log = <<>>
  /\ events = 0

\* detect on the titles of the disc, and each signal on the titles as they
\* are, without the filter
RunSignals ==
  /\ detection = NoDetection
  /\ detection' \in detect(tray.titles, tray.name, config.forced_types,
                           DEFAULT_MIN_MOVIE_DURATION)
  /\ results' = Signals(tray.titles, tray.name, DEFAULT_MIN_MOVIE_DURATION)
  /\ UNCHANGED <<config, shelf, tray, tree, disc_db, disc_inserted, lock_file,
                 state, decision, monitors, restored, rip_log, events>>

\* the movie comparison of _process_disc on the titles of the disc and a
\* folder of existing_titles files that last existing_duration seconds
RunCompare ==
  /\ decision = NoDecision
  /\ \E existing_titles \in 0..2, existing_duration \in ExistingDurations :
       decision' =
         [NoDecision EXCEPT
            !.outcome = "compared", !.disc = tray,
            !.existing_titles = existing_titles,
            !.existing_duration = existing_duration,
            !.action = CompareMovie(existing_titles, existing_duration,
                                    NewTitleCount(tray.titles),
                                    NewTotalDuration(tray.titles))]
  /\ UNCHANGED <<config, shelf, tray, tree, disc_db, disc_inserted, lock_file,
                 state, detection, results, monitors, restored, rip_log, events>>

NextArith == RunSignals \/ RunCompare

SpecArith == InitArith /\ [][NextArith]_vars

(***************************************************************************)
(* The round trip of ServiceState through to_dict and from_dict            *)
(***************************************************************************)
LastRips ==
  {NoLastRip,
   LastRipInfo("Film", "2024-01-01T01:00:00", "/movies/Film", 0, 0),
   LastRipInfo("Film", "2024-01-01T01:00:00", "/movies/Film", 3, 4096)}

ServiceStates ==
  {[ServiceState EXCEPT
      !.status = ServiceStatus(st), !.disc_name = dn, !.progress_percent = pp,
      !.current_title = ct, !.last_rip = lr] :
     st \in {"idle", "ripping", "error", "starting"},
     dn \in {"<None>", "Test Disc"}, pp \in {0, 50, 100}, ct \in {0, 1},
     lr \in LastRips}

InitState ==
  /\ config = [forced_types |-> <<>>, overwrite_existing |-> FALSE,
               movies |-> MoviesRoot, tv_shows |-> TvRoot]
  /\ shelf = [discs |-> {}, limit |-> 0]
  /\ tray = NoDisc
  /\ tree = EmptyTree
  /\ disc_db = EmptyDb
  /\ disc_inserted = FALSE
  /\ lock_file = "absent"
  /\ state \in ServiceStates
  /\ decision = NoDecision
  /\ detection = NoDetection
  /\ results = <<>>
  /\ monitors = NoMonitors
  /\ restored = NotLoaded
  /\ rip_log = <<>>
  /\ events = 0

\* restored = ServiceState.from_dict(state.to_dict())
RoundTrip ==
  /\ restored = NotLoaded
  /\ restored' = from_dict(to_dict(state))
  /\ UNCHANGED <<config, shelf, tray, tree, disc_db, disc_inserted, lock_file,
                 state, decision, detection, results, monitors, rip_log, events>>

NextState == RoundTrip

SpecState == InitState /\ [][NextState]_vars

(***************************************************************************)
(* Properties of the output path resolution (monitor.py)                   *)
(***************************************************************************)
\* _process_disc got as far as the resolution of the output path
Processed == decision.outcome \in {"skipped", "ripped", "rip_failed"}

\* the base folder existed and was not empty when the disc was processed
BaseOccupied ==
  /\ decision.base \in DOMAIN decision.tree_before
  /\ \/ decision.tree_before[decision.base].mkv > 0
     \/ decision.tree_before[decision.base].other

\* the identity of the disc was in the store when the disc was processed
KnownId == decision.disc.disc_id \in DOMAIN decision.db_before

\* the path the store held for the identity of the disc
StoredPath == decision.db_before[decision.disc.disc_id].output_path

\* the path reported for a disc that is skipped by identity
StoredPathOrBase == IF KnownId THEN StoredPath ELSE decision.base

\* "<name> Disc k" and "<name> (k)" beside the base folder
NumberedTv(k) ==
  <<decision.base[1],
    decision.base[2] \o <<" ","D","i","s","c"," ">> \o IntToStr(k)>>

NumberedMovie(k) ==
  <<decision.base[1],
    decision.base[2] \o <<" ","(">> \o IntToStr(k) \o <<")">>>>

\* a folder that was absent or empty when the disc was processed
Free(path) ==
  \/ path \notin DOMAIN decision.tree_before
  \/ /\ decision.tree_before[path].mkv = 0
     /\ ~decision.tree_before[path].other

FreeTvNumbers == {k \in 2..20 : Free(NumberedTv(k))}

FreeMovieNumbers == {k \in 2..20 : Free(NumberedMovie(k))}

C1_IdentityCase ==
  Processed /\ ~config.overwrite_existing /\ BaseOccupied /\ KnownId

\* C1: with overwrite_existing false, an occupied base folder and the
\* identity of the disc in the store with path P, the disc is skipped as a
\* duplicate at P whatever its content class: the ripper is not invoked,
\* nothing is written, and the completion is reported with P.
C1_DuplicateByIdentity ==
  C1_IdentityCase =>
    /\ decision.action = "SKIP_DUPLICATE"
    /\ decision.path = StoredPath
    /\ ~decision.ripper_invoked
    /\ tree = decision.tree_before
    /\ disc_db = decision.db_before
    /\ state.status = "idle"
    /\ state.last_rip.output_path = StoredPath

\* a movie disc whose identity the store maps to a folder that is not the
\* base folder of the disc has been skipped at the stored folder
C1_Witness ==
  /\ C1_IdentityCase
  /\ decision.content_type = MOVIE
  /\ StoredPath # decision.base
  /\ decision.action = "SKIP_DUPLICATE"
  /\ state.last_rip.output_path = StoredPath

C2_TvCase ==
  /\ Processed /\ decision.content_type = TV_SHOW
  /\ ~config.overwrite_existing /\ BaseOccupied /\ ~KnownId

\* every run of _process_disc so far was a rip that completed and left files
OnlySuccessfulRips ==
  /\ Len(rip_log) = events
  /\ \A i \in 1..Len(rip_log) : rip_log[i].file_count > 0

\* the folder of the i-th disc of the series
SeriesFolder(i) ==
  <<TvRoot, IF i = 1 THEN Sherlock
            ELSE Sherlock \o <<" ","D","i","s","c"," ">> \o IntToStr(i)>>

\* C2: a TV disc that meets an occupied base folder, with no identity match
\* and overwrite_existing false, is ripped to "<name> Disc k" for the
\* smallest k in 2..20 whose folder is absent or empty, never to "Disc 1";
\* and the discs of a series ripped one after the other into an empty
\* library land in "<name>", "<name> Disc 2", "<name> Disc 3", in that order.
C2_TvAutoNumbering ==
  /\ (C2_TvCase /\ FreeTvNumbers # {}) =>
       /\ decision.action = "USE_PATH"
       /\ decision.ripper_invoked
       /\ decision.path = NumberedTv(SetMin(FreeTvNumbers))
  /\ (shelf.discs = SeriesDiscs /\ OnlySuccessfulRips) =>
       \A i \in 1..Len(rip_log) :
         i <= 20 => rip_log[i].path = SeriesFolder(i)

\* three discs of the series were ripped and the third went to "Disc 3"
C2_Witness ==
  /\ shelf.discs = SeriesDiscs /\ OnlySuccessfulRips
  /\ Len(rip_log) = 3
  /\ C2_TvCase
  /\ decision.path = NumberedTv(3)
  /\ rip_log[3].path = SeriesFolder(3)

\* a series disc met folders 1 and 3 and went to "Disc 2"
C2_WitnessGap ==
  /\ C2_TvCase
  /\ ~Free(NumberedTv(3))
  /\ decision.path = NumberedTv(2)

C3_MovieCase ==
  /\ Processed /\ decision.content_type = MOVIE
  /\ ~config.overwrite_existing /\ BaseOccupied /\ ~KnownId

\* the number of .mkv files of the base folder and the number and total
\* duration of the titles of the disc
ExistingFiles == decision.tree_before[decision.base].mkv

DiscTitleCount == Len(decision.disc.titles)

DiscTotalDuration ==
  SeqSum([i \in 1..Len(decision.disc.titles) |->
            decision.disc.titles[i].duration])

\* counts that differ by at most one and durations that differ by less than
\* 5 per cent of the duration of the new disc
C3_Similar ==
  /\ ExistingFiles - DiscTitleCount \in {-1, 0, 1}
  /\ \/ /\ decision.existing_duration >= DiscTotalDuration
        /\ 100 * (decision.existing_duration - DiscTotalDuration)
             < 5 * SetMax({DiscTotalDuration, 1})
     \/ /\ decision.existing_duration < DiscTotalDuration
        /\ 100 * (DiscTotalDuration - decision.existing_duration)
             < 5 * SetMax({DiscTotalDuration, 1})

\* C3: a movie disc that meets an occupied base folder, with no identity
\* match and overwrite_existing false, is skipped as a duplicate of the base
\* folder exactly when the file count and the title count differ by at most
\* one and the durations differ by less than 5 per cent; otherwise it is
\* ripped to "<name> (k)" for the smallest free k in 2..20.
C3_MovieDuplicateRule ==
  C3_MovieCase =>
    /\ (decision.action = "SKIP_DUPLICATE") <=> C3_Similar
    /\ decision.action = "SKIP_DUPLICATE" =>
         decision.path = decision.base /\ ~decision.ripper_invoked
    /\ (decision.action # "SKIP_DUPLICATE" /\ FreeMovieNumbers # {}) =>
         /\ decision.action = "USE_PATH"
         /\ decision.path = NumberedMovie(SetMin(FreeMovieNumbers))

\* a movie with one title met a folder with one file of almost its length
\* and was skipped
C3_Witness ==
  /\ C3_MovieCase
  /\ ExistingFiles = 1 /\ DiscTitleCount = 1
  /\ decision.existing_duration # DiscTotalDuration
  /\ decision.action = "SKIP_DUPLICATE"
  /\ decision.path = decision.base

\* a movie whose title count is two off, with the same duration, went to
\* "<name> (2)"
C3_WitnessNumbered ==
  /\ C3_MovieCase
  /\ decision.existing_duration = DiscTotalDuration
  /\ ExistingFiles = 0 /\ DiscTitleCount = 2
  /\ decision.path = NumberedMovie(2)

\* the titles of the disc that are at least 600 seconds long
FilteredTitles ==
  SelectSeq(decision.disc.titles, LAMBDA t : t.duration >= 600)

FilteredDuration ==
  SeqSum([i \in 1..Len(FilteredTitles) |-> FilteredTitles[i].duration])

C4_SimilarFiltered ==
  /\ ExistingFiles - Len(FilteredTitles) \in {-1, 0, 1}
  /\ \/ /\ decision.existing_duration >= FilteredDuration
        /\ 100 * (decision.existing_duration - FilteredDuration)
             < 5 * SetMax({FilteredDuration, 1})
     \/ /\ decision.existing_duration < FilteredDuration
        /\ 100 * (FilteredDuration - decision.existing_duration)
             < 5 * SetMax({FilteredDuration, 1})

\* C4: the movie duplicate comparison counts and sums the filtered titles of
\* the disc (those of at least 600 seconds), so that a disc is skipped
\* exactly when its filtered titles are similar to the base folder.
C4_FilteredTitlesCompared ==
  C3_MovieCase =>
    ((decision.action = "SKIP_DUPLICATE") <=> C4_SimilarFiltered)

C5_FreshCase ==
  Processed /\ (~BaseOccupied \/ config.overwrite_existing)

\* C5: when the base folder is absent or empty, or overwrite_existing is
\* true, the disc is ripped to the base folder itself, whether or not its
\* identity is in the store.
C5_FreshRip ==
  C5_FreshCase =>
    /\ decision.action = "USE_PATH"
    /\ decision.path = decision.base
    /\ decision.ripper_invoked
    /\ decision.outcome \in {"ripped", "rip_failed"}

\* a disc whose identity is in the store has been ripped to its base folder
C5_Witness ==
  /\ C5_FreshCase /\ KnownId
  /\ decision.ripper_invoked
  /\ decision.path = decision.base

\* the numbered folders of the class of the disc were all occupied
AllNumbersTaken ==
  IF decision.content_type = TV_SHOW THEN FreeTvNumbers = {}
  ELSE FreeMovieNumbers = {}

C6_OverflowCase ==
  /\ Processed /\ ~config.overwrite_existing /\ BaseOccupied /\ ~KnownId
  /\ decision.action # "SKIP_DUPLICATE"
  /\ AllNumbersTaken

\* C6: the numbering never probes a number above 20 and never chooses a
\* folder numbered above 20; when every candidate 2..20 is occupied the disc
\* is ripped to the base folder with USE_PATH and no error is raised by the
\* resolution.
C6_NumberingOverflow ==
  /\ Processed =>
       /\ decision.probed \subseteq 2..20
       /\ decision.path \in {decision.base, StoredPathOrBase}
                              \cup {NumberedTv(k) : k \in 2..20}
                              \cup {NumberedMovie(k) : k \in 2..20}
  /\ C6_OverflowCase =>
       /\ decision.action = "USE_PATH"
       /\ decision.path = decision.base
       /\ decision.ripper_invoked
       /\ decision.outcome \in {"ripped", "rip_failed"}

\* a disc met occupied folders for every number up to 20 and was ripped to
\* the base folder
C6_Witness ==
  /\ C6_OverflowCase
  /\ decision.probed = 2..20
  /\ decision.path = decision.base
  /\ decision.outcome = "ripped"

(***************************************************************************)
(* Properties of detect (detector.py)                                      *)
(***************************************************************************)
\* the vote results from: detect hands on five verdicts
VoteHeads ==
  {"TV Show", "Movie", "Ambiguous, but longest is",
   "Could not determine content type"}

\* detect has returned for the disc in the tray: a result of the vote is
\* the vote on the five signals
DetectRan ==
  /\ detection # NoDetection
  /\ detection.reason.head \in VoteHeads => Len(results) = 5

\* the entries of forced_types whose key is the disc name, exactly and
\* without regard to case
ExactKeys ==
  {i \in 1..Len(config.forced_types) : config.forced_types[i][1] = tray.name}

FoldedKeys ==
  {i \in 1..Len(config.forced_types) :
     Lower(config.forced_types[i][1]) = Lower(tray.name)}

\* no title of the disc is ten minutes long
NoMainTitle == \A i \in 1..Len(tray.titles) : tray.titles[i].duration < 600

\* some registry entry, as it is written in the registry, occurs in the
\* lower-cased disc name
RegistryHit ==
  LET disc_lower == Lower(tray.name)
  IN  \E e \in KNOWN_TV_SHOWS : Contains(disc_lower, e)

\* some registry entry occurs in the disc name when both are compared
\* without regard to case
RegistryHitFolded ==
  LET disc_lower == Lower(tray.name)
  IN  \E e \in KNOWN_TV_SHOWS : Contains(disc_lower, Lower(e))

C7_OverrideCase == DetectRan /\ FoldedKeys # {}

\* C7: when the disc name is a key of forced_types, exactly or without
\* regard to case, detect returns confidence high and the class forced for
\* that key (the exact key if there is one), whatever the titles are and
\* whatever else the name contains.
C7_ManualOverrideWins ==
  C7_OverrideCase =>
    /\ detection.confidence = "high"
    /\ detection.content_type \in
         {config.forced_types[i][2] :
            i \in (IF ExactKeys # {} THEN ExactKeys ELSE FoldedKeys)}
    /\ detection.reason.head = "Manual override in config"

\* a disc without titles whose name is a known series and matches a key
\* only without regard to case has been forced to a movie
C7_Witness ==
  /\ C7_OverrideCase
  /\ ExactKeys = {}
  /\ tray.titles = <<>>
  /\ RegistryHit
  /\ detection.content_type = MOVIE
  /\ detection.confidence = "high"

C8_KnownSeriesCase == DetectRan /\ FoldedKeys = {} /\ RegistryHitFolded

\* C8: a disc name that contains an entry of KNOWN_TV_SHOWS, compared
\* without regard to case, and that matches no manual override is
\* classified tvshow with confidence high, whatever the titles are.
C8_KnownSeriesLookup ==
  C8_KnownSeriesCase =>
    detection.content_type = TV_SHOW /\ detection.confidence = "high"

C9_NoMainTitleCase == DetectRan /\ NoMainTitle /\ FoldedKeys = {}

TokenWords ==
  {<<"d","i","s","c">>, <<"p","a","r","t">>,
   <<"v","o","l","u","m","e">>, <<"v","o","l">>}

\* the name ends in one of the words, optional blanks and a number
EndsInToken(name) ==
  LET low == Lower(name)
  IN  \E w \in TokenWords : \E i \in 1..(Len(name) - Len(w)) :
        /\ SubSeq(low, i, i + Len(w) - 1) = w
        /\ \E j \in (i + Len(w))..Len(name) :
             /\ \A b \in (i + Len(w))..(j - 1) : name[b] = " "
             /\ \A d \in j..Len(name) :
                  name[d] \in {"0","1","2","3","4","5","6","7","8","9"}

C10_TokenCase ==
  /\ DetectRan /\ FoldedKeys = {} /\ ~NoMainTitle
  /\ EndsInToken(tray.name)
  /\ ~RegistryHit

\* C10: when no manual override and no registry entry matches and some
\* title is ten minutes or longer, a disc name that ends in a
\* disc|part|volume|vol <N> token is classified tvshow with confidence high
\* by the pattern alone, whatever the durations and sizes of the titles.
C10_MultiDiscPattern ==
  C10_TokenCase =>
    /\ detection.content_type = TV_SHOW
    /\ detection.confidence = "high"
    /\ detection.reason.head = "Multi-disc pattern detected"

\* a single title of 150 minutes named "X Vol 2" is tvshow / high
C10_Witness ==
  /\ C10_TokenCase
  /\ tray.name = <<"X"," ","V","o","l"," ","2">>
  /\ Len(tray.titles) = 1
  /\ tray.titles[1].duration = 9000
  /\ detection.content_type = TV_SHOW
  /\ detection.confidence = "high"

(***************************************************************************)
(* Properties of the vote and of the statistical signals                   *)
(***************************************************************************)
\* a vote was taken: _combine_results returned for the verdicts in results
Voted == detection # NoDetection /\ detection.reason.head \in VoteHeads

\* the weighted total of a class in half points: high 2.0, medium 1.0,
\* low 0.5
Total(ct) ==
  LET w(i) == IF results[i].content_type # ct THEN 0
              ELSE IF results[i].confidence = "high" THEN 4
              ELSE IF results[i].confidence = "medium" THEN 2
              ELSE 1
  IN  SeqSum([i \in 1..Len(results) |-> w(i)])

\* the titles of the disc of ten minutes or more, in minutes and in seconds
MainSeconds ==
  LET main == SelectSeq(tray.titles, LAMBDA t : t.duration >= 600)
  IN  [i \in 1..Len(main) |-> main[i].duration]

MainMinutes == [i \in 1..Len(MainSeconds) |-> MainSeconds[i] \div 60]

\* some filtered title is 5400 seconds long or longer
LongTitle == \E i \in 1..Len(MainSeconds) : MainSeconds[i] >= 5400

C11_TieCase == Voted /\ Total(TV_SHOW) = Total(MOVIE)

\* C11: when the weighted totals of tvshow and movie are equal, 0-0
\* included, the result is movie / medium if the longest filtered title is
\* at least 5400 seconds and unknown / low otherwise.
C11_TieBreak ==
  C11_TieCase =>
    IF LongTitle
    THEN detection.content_type = MOVIE /\ detection.confidence = "medium"
    ELSE detection.content_type = UNKNOWN /\ detection.confidence = "low"

\* a tie with a longest title of exactly 90 minutes came out movie / medium
C11_Witness ==
  /\ C11_TieCase
  /\ results # <<>>
  /\ MainSeconds = <<5400>>
  /\ detection.content_type = MOVIE
  /\ detection.confidence = "medium"

\* a tie without any verdict for either class and a longest title of 50
\* minutes came out unknown / low
C11_WitnessShort ==
  /\ C11_TieCase
  /\ Total(MOVIE) = 0
  /\ MainSeconds = <<3000>>
  /\ detection.content_type = UNKNOWN
  /\ detection.confidence = "low"

\* a tie reached by detect itself
C11_WitnessDetect ==
  /\ C11_TieCase
  /\ Len(results) = 5
  /\ Total(MOVIE) > 0

\* detect reached the vote with its five signals: name, duration pattern,
\* size distribution, title count, clustering
VotedByDetect == Voted /\ Len(results) = 5

\* the name triggers no override, registry entry, multi-disc token or name
\* indicator
PlainName == VotedByDetect /\ results[1].content_type = UNKNOWN

\* the sizes in GiB of the titles of ten minutes or more
MainSizes ==
  LET main == SelectSeq(tray.titles, LAMBDA t : t.duration >= 600)
  IN  [i \in 1..Len(main) |-> main[i].size_bytes]

C12_SingleFeatureCase == PlainName /\ MainSeconds = <<9000>>

\* C12 as stated: one filtered title of 150 minutes and a plain name give
\* movie / medium for every size of the title.
C12_SingleFeatureMedium ==
  C12_SingleFeatureCase =>
    detection.content_type = MOVIE /\ detection.confidence = "medium"

\* C12: one filtered title of 150 minutes and a plain name give movie; the
\* confidence is medium when the title is at most 10 GiB and high when it
\* is larger, because the size signal then votes movie / high as well.
C12_SingleFeature ==
  C12_SingleFeatureCase =>
    /\ detection.content_type = MOVIE
    /\ detection.confidence = IF MainSizes[1] > 10 THEN "high" ELSE "medium"

\* a single title of 150 minutes and 30 GiB came out movie / high
C12_Witness ==
  /\ C12_SingleFeatureCase
  /\ MainSizes = <<30>>
  /\ detection.content_type = MOVIE
  /\ detection.confidence = "high"

\* a single title of 150 minutes and 5 GiB came out movie / medium
C12_WitnessSmall ==
  /\ C12_SingleFeatureCase
  /\ MainSizes = <<5>>
  /\ detection.confidence = "medium"

C13_DominantCase ==
  /\ PlainName
  /\ results[3].content_type = UNKNOWN
  /\ MainMinutes = <<45, 130>>

LowVariance ==
  LET n  == Len(MainMinutes)
      s  == SeqSum(MainMinutes)
      sq == SeqSum([i \in 1..n |-> MainMinutes[i] * MainMinutes[i]])
  IN  n >= 2 /\ n * sq - s * s < 100 * n * (n - 1)

\* every filtered title lies in one of the four bands
InOneBand ==
  \E b \in {<<18, 26>>, <<38, 52>>, <<50, 65>>, <<60, 130>>} :
    \A i \in 1..Len(MainMinutes) :
      b[1] <= MainMinutes[i] /\ MainMinutes[i] <= b[2]

C14_BandCase == VotedByDetect /\ LowVariance /\ InOneBand

\* C14: when at least two filtered titles have a variance (statistics.variance
\* of their minutes) below 100 and all lie inside one of the bands 18-26,
\* 38-52, 50-65 or 60-130, the duration-pattern signal returns tvshow / high;
\* and titles of 22, 23, 24 and 25 minutes under a plain name are finally
\* tvshow / high whatever their sizes.
C14_LowVarianceBand ==
  /\ C14_BandCase =>
       results[2].content_type = TV_SHOW /\ results[2].confidence = "high"
  /\ (PlainName /\ MainMinutes = <<22, 23, 24, 25>>) =>
       detection.content_type = TV_SHOW /\ detection.confidence = "high"

\* four episodes of 22 to 25 minutes, one file far larger than the others,
\* came out tvshow / high
C14_Witness ==
  /\ C14_BandCase /\ PlainName
  /\ MainMinutes = <<22, 23, 24, 25>>
  /\ MainSizes = <<1, 1, 1, 20>>
  /\ results[3].content_type = MOVIE
  /\ detection.content_type = TV_SHOW
  /\ detection.confidence = "high"

(***************************************************************************)
(* Properties of the name cleaning and of the base folder                  *)
(***************************************************************************)
\* C15: _clean_name is idempotent: cleaning the cleaned name of the disc
\* gives the cleaned name again, also for a name with two parenthesised
\* years or with a year followed by a disc or season token.
C15_CleanNameIdempotent ==
  DetectRan =>
    /\ _clean_name(_clean_name(tray.name)) = _clean_name(tray.name)
    /\ detection.suggested_name # None =>
         _clean_name(detection.suggested_name) = detection.suggested_name

\* the name with its invalid characters replaced and its season, disc, part,
\* volume and year tokens stripped
StableName(name) == _clean_name(_sanitize_name(name))

\* C16: the base path handed to the output resolver is the library root
\* joined with the sanitized name with season/disc/part/volume/year tokens
\* stripped, so that "Sherlock Disc 2" gets the base folder of "Sherlock".
C16_StableBaseFolder ==
  Processed =>
    decision.base =
      <<LibraryRoot(decision.content_type), StableName(decision.disc.name)>>

(***************************************************************************)
(* Determinism of the classification                                       *)
(***************************************************************************)
\* detect returned: the vote, when it was reached, was on the five signals
DetectCalled == DetectRan /\ (Voted => Len(results) = 5)

\* C17: detect is deterministic: every result that detect can return for
\* the titles, name and overrides of the disc equals the result it did
\* return, in content type, confidence, reason and suggested name.
C17_Deterministic ==
  DetectCalled =>
    detect(tray.titles, tray.name, config.forced_types,
           DEFAULT_MIN_MOVIE_DURATION) = {detection}

(***************************************************************************)
(* The lock file between two monitor processes                             *)
(***************************************************************************)
\* the monitors that are inside the try block of _process_disc
Processing == {m \in Monitors : monitors[m].pc = "process"}

\* C18: disc processing is serialized by the lock file: at no time are two
\* monitors inside _process_disc, a monitor that found the lock of a running
\* process has not gone on to the drive, and no monitor has removed a lock
\* that held the pid of the other running monitor.
C18_LockSerializes ==
  /\ Cardinality(Processing) <= 1
  /\ \A m \in Monitors :
       /\ monitors[m].last = "ripping" => monitors[m].pc = "poll"
       /\ monitors[m].unlinked # "other"

\* no monitor has removed a lock that held the pid of the other monitor
C18_OwnLockOnly == \A m \in Monitors : monitors[m].unlinked # "other"

(***************************************************************************)
(* Divisions of the signals and of the movie comparison                   *)
(***************************************************************************)
\* the signals were applied to the titles of the disc as they are
SignalsRan == Len(results) = 5

\* the movie comparison was made
Compared == decision.outcome = "compared"

TotalSize == SeqSum([i \in 1..Len(tray.titles) |-> tray.titles[i].size_bytes])

TotalMinutes ==
  SeqSum([i \in 1..Len(tray.titles) |-> tray.titles[i].duration \div 60])

UnknownLow(v) == v.content_type = UNKNOWN /\ v.confidence = "low"

\* C19: for title lists with non-negative durations and sizes, all-zero
\* ones too, no signal, no classification and no movie comparison divides
\* by zero; a zero total size gives a size verdict of unknown / low, a zero
\* total duration gives a duration verdict of unknown / low, and a disc
\* whose durations sum to zero is compared with a denominator of 1.
C19_NoDivisionFault ==
  /\ SignalsRan =>
       /\ \A i \in 1..5 : results[i] # ZeroDivisionError
       /\ detection # Raised
       /\ TotalSize = 0 => UnknownLow(results[3])
       /\ TotalMinutes = 0 => UnknownLow(results[2])
  /\ Compared =>
       /\ decision.action \in {"SKIP_DUPLICATE", "USE_PATH"}
       /\ DiscTotalDuration = 0 =>
            (decision.action = "SKIP_DUPLICATE" <=>
               /\ decision.existing_titles - DiscTitleCount \in {-1, 0, 1}
               /\ 100 * decision.existing_duration < 5 * 1)

\* two titles of size zero met the guard of the size signal
C19_Witness ==
  /\ SignalsRan
  /\ Len(tray.titles) >= 2 /\ TotalSize = 0
  /\ results[3].reason.kind = "Cannot analyze: zero total size"

\* titles of less than a minute each were seen by the duration signal, and
\* a disc whose durations sum to zero was found to be the movie of an empty
\* folder
C19_WitnessZeroDuration ==
  /\ SignalsRan /\ Compared
  /\ Len(tray.titles) = 3 /\ TotalMinutes = 0
  /\ UnknownLow(results[2])
  /\ DiscTotalDuration = 0
  /\ decision.existing_duration = 0
  /\ decision.action = "SKIP_DUPLICATE"

(***************************************************************************)
(* Serialization of ServiceState                                           *)
(***************************************************************************)
\* C20: ServiceState.from_dict(s.to_dict()) equals s field by field, its
\* status is a member of ServiceStatus and its last_rip, when s has one, is
\* a LastRipInfo.
C20_RoundTrip ==
  restored # NotLoaded =>
    /\ \A f \in DOMAIN state : restored[f] = state[f]
    /\ restored.status.kind = "ServiceStatus"
    /\ state.last_rip # NoLastRip => restored.last_rip.kind = "LastRipInfo"

\* a ripping state at 50 per cent with a last rip of three files came back
C20_Witness ==
  /\ restored # NotLoaded
  /\ state.status.value = "ripping" /\ state.progress_percent = 50
  /\ state.last_rip.file_count = 3
  /\ restored.last_rip = state.last_rip
  /\ restored.disc_name = "Test Disc"

(***************************************************************************)
(* Properties of the vote                                                  *)
(***************************************************************************)
\* the verdicts that name a class
Voters == {i \in 1..Len(results) : results[i].content_type \in {TV_SHOW, MOVIE}}

\* C21: every verdict adds 2.0 (high), 1.0 (medium) or 0.5 (low) to the
\* total of its class and an unknown verdict adds to neither; the class with
\* the strictly higher total wins, with confidence high exactly when the
\* winning total is at least 3.0 and medium otherwise; one verdict alone
\* never gives a voted result of high confidence.
C21_VoteCombiner ==
  Voted =>
    /\ Total(TV_SHOW) > Total(MOVIE) =>
         /\ detection.content_type = TV_SHOW
         /\ detection.reason.head = "TV Show"
         /\ (detection.confidence = "high") <=> (Total(TV_SHOW) >= 6)
         /\ detection.confidence \in {"high", "medium"}
    /\ Total(MOVIE) > Total(TV_SHOW) =>
         /\ detection.content_type = MOVIE
         /\ detection.reason.head = "Movie"
         /\ (detection.confidence = "high") <=> (Total(MOVIE) >= 6)
         /\ detection.confidence \in {"high", "medium"}
    /\ Cardinality(Voters) <= 1 => detection.confidence # "high"

\* a high and a medium verdict of one class against a low one of the other
\* reached exactly 3.0 and gave high confidence
C21_Witness ==
  /\ Voted
  /\ Total(TV_SHOW) = 6 /\ Total(MOVIE) = 1
  /\ detection.content_type = TV_SHOW
  /\ detection.confidence = "high"

\* one high verdict alone won with medium confidence
C21_WitnessSingle ==
  /\ Voted
  /\ Cardinality(Voters) = 1 /\ Total(MOVIE) = 4
  /\ detection.content_type = MOVIE
  /\ detection.confidence = "medium"

(***************************************************************************)
(* Properties of the signals                                               *)
(***************************************************************************)
\* the population variance of the minutes of the filtered titles is below
\* 100: sum((x - mean)^2) / n < 100
PopulationVarianceBelow100 ==
  LET n  == Len(MainMinutes)
      s  == SeqSum(MainMinutes)
      sq == SeqSum([i \in 1..n |-> MainMinutes[i] * MainMinutes[i]])
  IN  n * sq - s * s < 100 * n * n

\* the duration signal ended in its low-spread branch
LowSpreadBranch ==
  results[2].reason.kind \in
    {"All titles have similar durations", "Similar durations around",
     "Duration analysis inconclusive"}

\* C22: for two or more filtered titles the duration signal takes its
\* low-spread branch exactly when the population variance of their minutes
\* is below 100.
C22_PopulationVariance ==
  (VotedByDetect /\ Len(MainMinutes) >= 2) =>
    (LowSpreadBranch <=> PopulationVarianceBelow100)

\* for two or more filtered titles the duration signal takes its low-spread
\* branch exactly when statistics.variance of their minutes is below 100
C22_SampleVariance ==
  (VotedByDetect /\ Len(MainMinutes) >= 2) => (LowSpreadBranch <=> LowVariance)

\* the TV rule of the title count: 2 to 12 filtered titles, at least 80 per
\* cent of them of 40 to 130 minutes
TvRule ==
  LET n == Len(MainMinutes)
      in_band == {i \in 1..n : 40 <= MainMinutes[i] /\ MainMinutes[i] <= 130}
  IN  2 <= n /\ n <= 12 /\ 10 * Cardinality(in_band) >= 8 * n

\* at most three filtered titles, the longest of at least 80 minutes
FewLongTitles ==
  /\ Len(MainMinutes) <= 3
  /\ \E i \in 1..Len(MainMinutes) : MainMinutes[i] >= 80

\* C23: a filtered title set of one, two or three titles that does not
\* satisfy the TV rule and whose longest title is at least 80 minutes gets
\* the title-count verdict movie / medium; any other set that does not
\* satisfy the TV rule gets unknown / low.
C23_TitleCount ==
  (VotedByDetect /\ ~TvRule) =>
    IF FewLongTitles
    THEN results[4].content_type = MOVIE /\ results[4].confidence = "medium"
    ELSE UnknownLow(results[4])

\* the same for sets of two or more titles
C23_TitleCountFromTwo ==
  (VotedByDetect /\ ~TvRule /\ Len(MainMinutes) >= 2) =>
    IF FewLongTitles
    THEN results[4].content_type = MOVIE /\ results[4].confidence = "medium"
    ELSE UnknownLow(results[4])

\* the reasons of the high and medium verdicts, in the order of the signals
StrongReasons ==
  LET strong == SelectSeq(results, LAMBDA r : r.confidence \in {"high", "medium"})
  IN  [i \in 1..Len(strong) |-> strong[i].reason]

\* the first reason, or the first two
UpToTwo(rs) == SubSeq(rs, 1, IF Len(rs) < 2 THEN Len(rs) ELSE 2)

\* C24: whenever a signal returned a high or medium verdict, the final
\* reason holds the reasons of the first one or two such verdicts, in signal
\* order, and the reason of no low verdict.
C24_RationaleKept ==
  (Voted /\ StrongReasons # <<>>) =>
    /\ detection.reason.parts = UpToTwo(StrongReasons)
    /\ Len(detection.reason.parts) \in {1, 2}

\* the same when one class has the strictly higher total
C24_RationaleKeptByWinner ==
  (Voted /\ StrongReasons # <<>> /\ Total(TV_SHOW) # Total(MOVIE)) =>
    /\ detection.reason.parts = UpToTwo(StrongReasons)
    /\ Len(detection.reason.parts) \in {1, 2}

(***************************************************************************)
(* Properties of disc processing (monitor.py)                              *)
(***************************************************************************)
\* the disc carries an identity
IdPresent == decision.disc.disc_id \notin {None, <<>>}

\* the store as it was, with the identity of the disc mapped to path
StoreWith(path) ==
  [i \in DOMAIN decision.db_before \cup {decision.disc.disc_id} |->
     IF i = decision.disc.disc_id
     THEN [name |-> decision.disc.name, output_path |-> path]
     ELSE decision.db_before[i]]

\* C25: the store gains or changes an entry only when rip_disc has
\* completed for a disc whose identity is present, and the entry then maps
\* the identity to the output path that was ripped to, the numbered folder
\* when numbering applied; a disc that was skipped, whose rip failed or
\* whose identity is absent leaves the store as it was and ends in no error
\* of the resolution.
C25_StoreUpdateRule ==
  Processed =>
    /\ (decision.outcome = "ripped" /\ IdPresent) =>
         /\ disc_db = StoreWith(decision.path)
         /\ decision.path = rip_log[Len(rip_log)].path
    /\ ~(decision.outcome = "ripped" /\ IdPresent) =>
         disc_db = decision.db_before
    /\ decision.outcome = "skipped" => state.status = "idle"

\* a disc whose identity was new to the store was ripped to a numbered
\* folder, and the store now maps its identity to that folder
C25_Witness ==
  /\ Processed /\ decision.outcome = "ripped" /\ IdPresent
  /\ ~KnownId
  /\ decision.path # decision.base
  /\ disc_db[decision.disc.disc_id].output_path = decision.path
  /\ disc_db # decision.db_before

\* a disc without identity was ripped and the store stayed as it was
C25_WitnessNoId ==
  /\ Processed /\ decision.outcome = "ripped" /\ ~IdPresent
  /\ disc_db = decision.db_before

C26_UnknownCase ==
  /\ Processed /\ decision.content_type = UNKNOWN
  /\ ~config.overwrite_existing /\ BaseOccupied /\ ~KnownId

\* C26: a disc classified unknown is resolved like a movie: its base folder
\* is under the movies root and, when that folder is occupied with no
\* identity match, it is skipped exactly when the movie comparison finds it
\* similar and is otherwise ripped to "<name> (k)"; only tvshow discs use
\* the series root and "Disc k"; an unknown disc is skipped or ripped, never
\* held back.
C26_UnknownAsMovie ==
  /\ Processed =>
       /\ decision.base[1] =
            IF decision.content_type = TV_SHOW THEN config.tv_shows
            ELSE config.movies
       /\ decision.content_type # TV_SHOW =>
            decision.path \notin {NumberedTv(k) : k \in 2..20}
  /\ (Processed /\ decision.content_type = UNKNOWN) =>
       /\ decision.action \in {"SKIP_DUPLICATE", "USE_PATH"}
       /\ decision.action = "USE_PATH" => decision.ripper_invoked
  /\ C26_UnknownCase =>
       /\ (decision.action = "SKIP_DUPLICATE") <=> C3_Similar
       /\ (decision.action # "SKIP_DUPLICATE" /\ FreeMovieNumbers # {}) =>
            /\ decision.path = NumberedMovie(SetMin(FreeMovieNumbers))
            /\ decision.ripper_invoked

\* a disc without a title of ten minutes, classified unknown, met an
\* occupied folder under the movies root and was ripped to "<name> (2)"
C26_Witness ==
  /\ C26_UnknownCase
  /\ decision.base[1] = config.movies
  /\ decision.path = NumberedMovie(2)
  /\ decision.ripper_invoked

\* an unknown disc was skipped as the movie of its base folder
C26_WitnessSkipped ==
  /\ C26_UnknownCase
  /\ decision.action = "SKIP_DUPLICATE"
  /\ decision.path = decision.base

\* _process_disc has returned at least once
Returned == decision.outcome \in {"error", "skipped", "ripped", "rip_failed"}

\* C27: whenever _process_disc has returned, by a duplicate skip, a rip
\* that completed, a rip that failed, an analysis error or a library path
\* that is not configured, the lock file is absent and the status is idle
\* or error; the status ripping is seen by no poll outside _process_disc.
C27_ReturnsUnlocked ==
  /\ state.status \in {"idle", "error"}
  /\ Returned =>
       /\ lock_file = "absent"
       /\ decision.outcome \in {"error", "rip_failed"} => state.status = "error"
       /\ decision.outcome = "skipped" => state.status = "idle"

\* start_rip had set the status to ripping for the disc when the library
\* path turned out not to be configured; the status is error and the lock
\* is gone
C27_Witness ==
  /\ decision.outcome = "error"
  /\ state.disc_name = decision.disc.name
  /\ state.status = "error"
  /\ lock_file = "absent"

\* a rip failed, the status is error and the lock is gone
C27_WitnessRipFailed ==
  /\ decision.outcome = "rip_failed"
  /\ state.status = "error"
  /\ lock_file = "absent"

\* C28: _process_disc runs only in a poll that finds a disc while
\* disc_inserted is false, and that poll sets disc_inserted whatever the
\* outcome (failed and skipped too), so a disc that polls keep reporting
\* present is processed once; disc_inserted is cleared only by a poll that
\* reports no disc, and that poll processes nothing; a poll that does not
\* process the disc (the device is missing) does not set disc_inserted.
C28_EdgeTriggered ==
  [][/\ events' # events =>
          /\ tray # NoDisc /\ ~disc_inserted /\ disc_inserted'
          /\ events' = events + 1
          /\ decision'.disc = tray
     /\ disc_inserted /\ disc_inserted' =>
          UNCHANGED <<events, decision, state, tree, disc_db, rip_log>>
     /\ disc_inserted /\ ~disc_inserted' => CheckDiscRemoved
     /\ ~disc_inserted /\ disc_inserted' => events' = events + 1]_vars

\* the disc in the drive was processed without a rip (failed or skipped),
\* is still there and is marked as seen
C28_Witness ==
  /\ events >= 1
  /\ tray # NoDisc /\ decision.disc = tray
  /\ disc_inserted
  /\ decision.outcome \in {"error", "skipped", "rip_failed"}

\* a disc was processed a second time, after a poll had cleared
\* disc_inserted
C28_WitnessAgain ==
  /\ events >= 2
  /\ tray # NoDisc /\ decision.disc = tray
  /\ disc_inserted

\* rip_disc was called and its makemkvcon subprocess ended with a return
\* code other than zero
NonZeroExit ==
  /\ decision.ripper_invoked
  /\ decision.makemkvcon.found
  /\ decision.makemkvcon.returncode # 0

\* the monitor treated the rip as failed: status error, no completed rip
\* reported, identity store as it was
TreatedAsFailed ==
  /\ decision.outcome = "rip_failed"
  /\ state.status = "error"
  /\ disc_db = decision.db_before

\* C29: a rip whose makemkvcon subprocess ends with a non-zero return code
\* is treated as failed (status error, no completed rip, identity store
\* unchanged), whatever the subprocess wrote to its output streams.
C29_NonZeroExitFails ==
  NonZeroExit => TreatedAsFailed

\* C29, as the code has it: a non-zero return code fails the rip when
\* stderr mentions neither "evaluation" nor "unregistered"
C29_NonZeroExitFailsUnlessEvaluation ==
  (NonZeroExit /\ ~decision.makemkvcon.evaluation) => TreatedAsFailed

\* a rip with return code 1 and no evaluation notice ended in status error
C29_Witness ==
  /\ NonZeroExit /\ ~decision.makemkvcon.evaluation
  /\ TreatedAsFailed

\* a rip with return code 1 and an evaluation notice on stderr was recorded
\* as completed and its identity stored
C29_WitnessEvaluation ==
  /\ NonZeroExit /\ decision.makemkvcon.evaluation
  /\ decision.outcome = "ripped"
  /\ state.status = "idle"
  /\ disc_db # decision.db_before

\* the base folder and every numbered candidate 2..20 of the class of the
\* disc were occupied when the disc was processed
NumberingOverflow == BaseOccupied /\ AllNumbersTaken

\* the latest entry of rip_log is the rip of the disc processed last
LastRipLogged ==
  /\ decision.outcome = "ripped"
  /\ rip_log # <<>>
  /\ rip_log[Len(rip_log)].path = decision.path

\* C30: with overwrite_existing false, the folder rip_disc is called with
\* was absent or empty when the path was resolved, unless the base folder
\* and all candidates 2..20 were occupied; so a rip that completes never
\* goes to the folder an earlier rip left files in, outside that overflow.
C30_NoRipIntoOccupied ==
  /\ (~config.overwrite_existing /\ decision.ripper_invoked) =>
       \/ Free(decision.path)
       \/ NumberingOverflow /\ decision.path = decision.base
  /\ (~config.overwrite_existing /\ LastRipLogged) =>
       \A i \in 1..(Len(rip_log) - 1) :
         (rip_log[i].path = decision.path /\ rip_log[i].file_count > 0)
           => NumberingOverflow

\* the base folder was occupied, a free numbered folder was chosen and the
\* rip was started there
C30_Witness ==
  /\ ~config.overwrite_existing /\ decision.ripper_invoked
  /\ BaseOccupied /\ ~NumberingOverflow
  /\ decision.path # decision.base
  /\ Free(decision.path)

\* two rips that left files went to different folders
C30_WitnessTwoRips ==
  /\ ~config.overwrite_existing /\ LastRipLogged
  /\ Len(rip_log) >= 2
  /\ rip_log[1].file_count > 0 /\ rip_log[2].file_count > 0
  /\ rip_log[1].path # rip_log[2].path

\* every candidate was occupied and the rip was started on the occupied
\* base folder
C30_WitnessOverflow ==
  /\ ~config.overwrite_existing /\ decision.ripper_invoked
  /\ NumberingOverflow
  /\ decision.path = decision.base

====
